---- MODULE Spec2Model ----
(***************************************************************************)
(* A model of the transaction flows of the solana-ui dashboard:            *)
(*   - utils/moonbuy.ts: the module-level rate limiter, executeMoonBuy and *)
(*     validateMoonBuyInputs;                                              *)
(*   - CustomBuyModal: the three-step Custom Buy wizard;                   *)
(*   - DistributeModal.tsx: the two-step Distribute wizard.                *)
(* The three components keep disjoint state (the module-level              *)
(* rateLimitState and the useState cells of each React component), so a    *)
(* behaviour exercises one of them; `component` records which one.         *)
(* Times are in milliseconds.  An async function is cut at its awaits:     *)
(* every action is one run-to-completion segment of the event loop.        *)
(***************************************************************************)
EXTENDS Integers, Sequences, FiniteSets, Bags, TLC

VARIABLES
    component,      \* which component the behaviour exercises
    now,            \* Date.now()
    rateLimitState, \* moonbuy.ts: { count, lastReset }
    moon,           \* per executeMoonBuy invocation: its position and locals
    calls,          \* per caller: whether it calls executeMoonBuy, and with which wallets
    backend,        \* "healthy": every request is answered with a result; "any": it may fail
    grants,         \* times at which checkRateLimit returned, within the last second
    store,          \* the wallet list (getWallets() / the wallets prop)
    solBalances,    \* the solBalances prop: address -> SOL, in thousandths
    cb,             \* CustomBuyModal: the isOpen prop and its useState cells
    cbOp,           \* CustomBuyModal: the handleCustomBuy call in progress
    cbReqs,         \* CustomBuyModal: the requests of the handleCustomBuy call in progress
    cbToast,        \* CustomBuyModal: the toast shown by the last step, if any
    dist,           \* DistributeModal: the isOpen prop and its useState cells
    distOp,         \* DistributeModal: the handleDistribute call in progress
    distToast,      \* DistributeModal: the toast shown by the last step, if any
    vIn,            \* validateMoonBuyInputs: the arguments of the call
    vOut,           \* validateMoonBuyInputs: what the call returned, if it was made
    app,            \* App.tsx: connection, importError, isRefreshing, isProcessingFile
    appOps,         \* App.tsx: the asynchronous calls in flight
    cookie,         \* App.tsx: the wallet list saved by saveWalletsToCookies
    appOut          \* App.tsx: the toast and the console.error of the last step

moonVars == <<now, rateLimitState, moon, calls, grants>>
cbVars == <<cb, cbOp, cbReqs, cbToast>>
distVars == <<dist, distOp, distToast>>
valVars == <<vIn, vOut>>
appVars == <<app, appOps, cookie, appOut>>
envVars == <<store, solBalances>>

nonMoonVars == <<envVars, cbVars, distVars, valVars, appVars>>

vars == <<component, backend, moonVars, envVars, cbVars, distVars, valVars, appVars>>

-----------------------------------------------------------------------------
(* Bounds *)

MaxBundles == 2     \* bundles in one backend response
MaxTime == 2000     \* the clock stops here

(* Program constants *)

MAX_BUNDLES_PER_SECOND == 2
WindowMs == 1000
BundleDelayMs == 500

\* The clock advances in steps of this size.
TickMs == BundleDelayMs

\* The invocations of executeMoonBuy that may run interleaved.
Callers == {"a", "b", "c"}

-----------------------------------------------------------------------------
(* Keys, wallets and transactions *)

\* Keypair.fromSecretKey(bs58.decode(k)).publicKey.toBase58(); "" stands for
\* the exception thrown on a key that is not a base58 64-byte secret key.
PublicKeyOf(k) ==
    CASE k = "K1" -> "A1"
      [] k = "K2" -> "A2"
      [] k = "K3" -> "A3"
      [] OTHER -> ""

Malformed(k) == PublicKeyOf(k) = ""

PrivateKeys == {"K1", "K2", "K3", "Kbad"}

W1 == [address |-> "A1", privateKey |-> "K1"]
W2 == [address |-> "A2", privateKey |-> "K2"]
WBad == [address |-> "A3", privateKey |-> "Kbad"]

\* An unsigned transaction: its static account keys, of which the first
\* numRequiredSignatures are its required signers, and the public keys that
\* have signed it. Tx3 lists the account A1 without requiring its signature.
Tx1 == [keys |-> <<"A1", "Prog">>, numRequiredSignatures |-> 1, sigs |-> {}]
Tx2 == [keys |-> <<"A2", "A1", "Prog">>, numRequiredSignatures |-> 2, sigs |-> {}]
Tx3 == [keys |-> <<"A2", "A1", "Prog">>, numRequiredSignatures |-> 1, sigs |-> {}]

\* A bundle as the backend returns it; hasTx is false for an object without
\* a transactions array.
BundleA == [hasTx |-> TRUE, transactions |-> <<Tx1, Tx2>>]
BundleB == [hasTx |-> TRUE, transactions |-> <<Tx3>>]
BundleNoTx == [hasTx |-> FALSE, transactions |-> <<>>]

\* An element of data.bundles that is a plain array of transactions.
PlainA == [plain |-> <<Tx1, Tx2>>]

\* Array.isArray(bundle)
IsPlainArray(bundle) == "plain" \in DOMAIN bundle

SeqsUpTo(S, n) == UNION {[1..k -> S] : k \in 0..n}

RECURSIVE SeqToSet(_)
SeqToSet(s) == IF s = <<>> THEN {} ELSE {Head(s)} \cup SeqToSet(Tail(s))

\* walletKeypairs.find(kp => kp.publicKey.toBase58() === pubkeyStr), then
\* signers.push unless already included: the signers of one transaction.
SignersOf(tx, keypairs) ==
    {a \in SeqToSet(tx.keys) : \E i \in 1..Len(keypairs) : PublicKeyOf(keypairs[i]) = a}

\* message.staticAccountKeys.slice(0, header.numRequiredSignatures)
RequiredSigners(tx) == {tx.keys[i] : i \in 1..tx.numRequiredSignatures}

\* transaction.sign(signers) throws "Cannot sign with non signer key" when a
\* signer is not among the required signers of the message.
SignRejects(tx, keypairs) == ~(SignersOf(tx, keypairs) \subseteq RequiredSigners(tx))

SignTx(tx, keypairs) == [tx EXCEPT !.sigs = SignersOf(tx, keypairs)]

\* bundle.transactions.map(...) throws when transaction.sign does
SigningThrows(bundle, keypairs) ==
    /\ bundle.hasTx
    /\ \E i \in 1..Len(bundle.transactions) : SignRejects(bundle.transactions[i], keypairs)

\* completeBundleSigning returning the transactions in the opposite order
completeBundleSigningReversed(bundle, keypairs) ==
    IF ~bundle.hasTx
    THEN [hasTx |-> TRUE, transactions |-> <<>>]
    ELSE [hasTx |-> TRUE,
          transactions |-> [i \in 1..Len(bundle.transactions) |->
                               SignTx(bundle.transactions[Len(bundle.transactions) + 1 - i],
                                      keypairs)]]

\* completeBundleSigning
completeBundleSigning(bundle, keypairs) ==
    IF ~bundle.hasTx
    THEN [hasTx |-> TRUE, transactions |-> <<>>]
    ELSE [hasTx |-> TRUE,
          transactions |-> [i \in 1..Len(bundle.transactions) |->
                               SignTx(bundle.transactions[i], keypairs)]]

-----------------------------------------------------------------------------
(* utils/moonbuy.ts *)

BuyUrl == "/api/tokens/buy"
SendUrl == "/api/transactions/send"

NoReturn == [done |-> FALSE, success |-> FALSE, error |-> ""]

\* respAt is the time the last answer of /api/transactions/send arrived.
MoonIdle ==
    [pc |-> "idle", wallets |-> <<>>, signed |-> <<>>, i |-> 0, results |-> <<>>,
     timer |-> 0, respAt |-> 0, ret |-> NoReturn, reqs |-> <<>>]

MoonWalletInputs == {<<W1>>, <<W1, W2>>, <<W1, WBad>>, <<WBad>>}

\* What the backend may answer to POST /api/tokens/buy: no answer, an HTTP
\* error, or a JSON body.  The body is an object without a true success
\* ("fail"), an object with success and a bundles array ("bundles"), with
\* success and a flat transactions array ("transactions"), with success and
\* neither ("none"), or is itself an array of transactions ("array").
BuyResponses ==
    IF backend = "healthy"
    THEN {[kind |-> "bundles", bundles |-> [k \in 1..n |-> BundleA], transactions |-> <<>>] :
             n \in 1..MaxBundles}
         \cup {[kind |-> "bundles", bundles |-> b, transactions |-> <<>>] :
                  b \in {<<BundleB>>, <<PlainA>>}}
         \cup {[kind |-> "transactions", bundles |-> <<>>, transactions |-> <<Tx1, Tx2>>]}
    ELSE {[kind |-> k, bundles |-> <<>>, transactions |-> <<>>] :
             k \in {"neterr", "http", "fail", "none"}}
         \cup {[kind |-> "bundles", bundles |-> b, transactions |-> <<>>] :
                  b \in SeqsUpTo({BundleA, PlainA}, MaxBundles)
                        \cup {<<BundleNoTx>>, <<BundleB>>}}
         \cup {[kind |-> k, bundles |-> <<>>, transactions |-> <<Tx1, Tx2>>] :
                  k \in {"transactions", "array"}}

\* What the backend may answer to POST /api/transactions/send: a JSON body with
\* a result, a JSON body with an error (whatever the HTTP status), or no JSON
\* at all (fetch or response.json() rejects).
SendResponses ==
    IF backend = "healthy" THEN {"result"} ELSE {"result", "error", "neterr"}

\* checkRateLimit that counts without testing the cap
checkRateLimitUncapped(rl, t) ==
    LET r1 == IF t - rl.lastReset >= WindowMs
              THEN [count |-> 0, lastReset |-> t]
              ELSE rl
    IN  [waits |-> FALSE, waitTime |-> 0, rl |-> [r1 EXCEPT !.count = @ + 1]]

\* checkRateLimit up to its await, or to its return when it does not wait.
checkRateLimit(rl, t) ==
    LET r1 == IF t - rl.lastReset >= WindowMs
              THEN [count |-> 0, lastReset |-> t]
              ELSE rl
    IN  IF r1.count >= MAX_BUNDLES_PER_SECOND
        THEN [waits |-> TRUE, waitTime |-> WindowMs - (t - r1.lastReset), rl |-> r1]
        ELSE [waits |-> FALSE, waitTime |-> 0, rl |-> [r1 EXCEPT !.count = @ + 1]]

\* checkRateLimit after its sleep, without the final count++
checkRateLimitResumeUncounted(rl, t) == [count |-> 0, lastReset |-> t]

\* checkRateLimit after its sleep: count = 0; lastReset = Date.now(); count++.
checkRateLimitResume(rl, t) == [count |-> 0 + 1, lastReset |-> t]

\* getPartiallyPreparedTransactions: the request body.
BuyRequestBody(walletAddresses, tokenConfig, amounts) ==
    [walletAddresses |-> walletAddresses,
     tokenAddress |-> tokenConfig.tokenAddress,
     protocol |-> "moonshot",
     solAmount |-> tokenConfig.solAmount,
     amounts |-> amounts]

\* data.success: true in the objects that carry it; undefined in an object
\* without it and in a body that is an array.
DataSuccess(resp) == resp.kind \in {"bundles", "transactions", "none"}

\* Array.isArray(bundle) ? { transactions: bundle } : bundle
WrapPlainArray(bundle) ==
    IF IsPlainArray(bundle) THEN [hasTx |-> TRUE, transactions |-> bundle.plain] ELSE bundle

\* The bundles returned for a JSON body, or the error thrown; failed is the
\* message used when data.success is not true and data.error is empty.
NormalizedBundles(resp, failed) ==
    IF ~DataSuccess(resp)
    THEN [threw |-> TRUE, error |-> failed, bundles |-> <<>>]
    ELSE IF resp.kind = "bundles"
    THEN [threw |-> FALSE, error |-> "",
          bundles |-> [k \in 1..Len(resp.bundles) |-> WrapPlainArray(resp.bundles[k])]]
    ELSE IF resp.kind = "transactions"
    THEN [threw |-> FALSE, error |-> "",
          bundles |-> <<[hasTx |-> TRUE, transactions |-> resp.transactions]>>]
    ELSE IF resp.kind = "array"
    THEN [threw |-> FALSE, error |-> "",
          bundles |-> <<[hasTx |-> TRUE, transactions |-> resp.transactions]>>]
    ELSE [threw |-> TRUE, error |-> "No transactions returned from backend", bundles |-> <<>>]

\* fetch rejects, or response.ok is false, or the body is normalized
FetchedBundles(resp, failed) ==
    CASE resp.kind = "neterr" -> [threw |-> TRUE, error |-> "Failed to fetch", bundles |-> <<>>]
      [] resp.kind = "http" -> [threw |-> TRUE, error |-> "HTTP error! Status: 500", bundles |-> <<>>]
      [] OTHER -> NormalizedBundles(resp, failed)

\* getPartiallyPreparedTransactions: from the response to the bundles, or the
\* error thrown.
PreparedBundles(resp) ==
    FetchedBundles(resp, "Failed to get partially prepared transactions")

\* getUnsignedTransactions of the Custom Buy modal: the same, with its own message
getUnsignedTransactions(resp) ==
    FetchedBundles(resp, "Failed to get unsigned transactions")

\* The request for the bundle is started twice.
SendBundleRequestTwice(m) ==
    [m EXCEPT !.pc = "sending",
              !.respAt = 0,
              !.reqs = @ \o <<[url |-> SendUrl, body |-> [transactions |-> m.signed[m.i].transactions]],
                              [url |-> SendUrl, body |-> [transactions |-> m.signed[m.i].transactions]]>>]

\* sendBundle: the request is started.
SendBundleRequest(m) ==
    [m EXCEPT !.pc = "sending",
              !.respAt = 0,
              !.reqs = Append(@, [url |-> SendUrl,
                                  body |-> [transactions |-> m.signed[m.i].transactions]])]

Returned(m, ok, err) ==
    [m EXCEPT !.pc = "done", !.respAt = 0,
              !.ret = [done |-> TRUE, success |-> ok, error |-> err]]

DelayDeadlineNone(t) == t

\* The delay between bundles: setTimeout(resolve, 500).
DelayDeadline(t) == t + BundleDelayMs

\* "except after the last one"
DelayNeeded(i, n) == i < n

\* One turn of the for loop of executeMoonBuy for the invocation state m,
\* from its test to the first await that takes time.
LoopTurn(p, m) ==
    IF m.i > Len(m.signed)
    THEN /\ moon' = [moon EXCEPT ![p] = Returned(m, TRUE, "")]
         /\ UNCHANGED <<rateLimitState, grants>>
    ELSE LET c == checkRateLimit(rateLimitState, now)
         IN  /\ rateLimitState' = c.rl
             /\ grants' = IF c.waits THEN grants ELSE Append(grants, now)
             /\ moon' = [moon EXCEPT ![p] =
                            IF c.waits
                            THEN [m EXCEPT !.pc = "rateWait", !.timer = now + c.waitTime]
                            ELSE SendBundleRequest(m)]

\* executeMoonBuy is called: the addresses are extracted and the request for
\* the unsigned bundles is started.
MoonStart(p) ==
    /\ component = "moonbuy"
    /\ moon[p].pc = "idle"
    /\ calls[p].will
    /\ LET ws == calls[p].wallets
           addrs == [k \in 1..Len(ws) |-> ws[k].address]
           cfg == [tokenAddress |-> "Token", solAmount |-> 1]
       IN  moon' = [moon EXCEPT ![p] =
              [@ EXCEPT !.pc = "fetching",
                        !.wallets = ws,
                        !.reqs = <<[url |-> BuyUrl,
                                    body |-> BuyRequestBody(addrs, cfg, <<>>)]>>]]
    /\ UNCHANGED <<component, backend, now, rateLimitState, calls, grants, nonMoonVars>>

\* executeMoonBuy from the answer of /api/tokens/buy to the send loop: the
\* bundles are taken from the answer, the keypairs are built from the private
\* keys, and every bundle is signed.
MoonSigned(resp, wallets) ==
    LET got == PreparedBundles(resp)
        keys == [k \in 1..Len(wallets) |-> wallets[k].privateKey]
    IN  IF got.threw
        THEN [threw |-> TRUE, error |-> got.error, signed |-> <<>>]
        ELSE IF \E k \in 1..Len(keys) : Malformed(keys[k])
        THEN [threw |-> TRUE, error |-> "bad secret key", signed |-> <<>>]
        ELSE IF \E k \in 1..Len(got.bundles) : SigningThrows(got.bundles[k], keys)
        THEN [threw |-> TRUE, error |-> "Cannot sign with non signer key", signed |-> <<>>]
        ELSE [threw |-> FALSE, error |-> "",
              signed |-> [k \in 1..Len(got.bundles) |->
                             completeBundleSigning(got.bundles[k], keys)]]

\* The answer of /api/tokens/buy arrives: keypairs, signing, and the first
\* turn of the send loop.
MoonFetched(p) ==
    /\ component = "moonbuy"
    /\ moon[p].pc = "fetching"
    /\ \E resp \in BuyResponses :
         LET m0 == moon[p]
             out == MoonSigned(resp, m0.wallets)
         IN  IF out.threw
             THEN /\ moon' = [moon EXCEPT ![p] = Returned(m0, FALSE, out.error)]
                  /\ UNCHANGED <<rateLimitState, grants>>
             ELSE LoopTurn(p, [m0 EXCEPT !.signed = out.signed, !.i = 1])
    /\ UNCHANGED <<component, backend, now, calls, nonMoonVars>>

\* The sleep of checkRateLimit ends.
MoonRateWake(p) ==
    /\ component = "moonbuy"
    /\ moon[p].pc = "rateWait"
    /\ now >= moon[p].timer
    /\ rateLimitState' = checkRateLimitResume(rateLimitState, now)
    /\ grants' = Append(grants, now)
    /\ moon' = [moon EXCEPT ![p] = SendBundleRequest(@)]
    /\ UNCHANGED <<component, backend, now, calls, nonMoonVars>>

\* The answer of /api/transactions/send arrives.
MoonSent(p) ==
    /\ component = "moonbuy"
    /\ moon[p].pc = "sending"
    /\ \E r \in SendResponses :
         IF r = "neterr"
         THEN moon' = [moon EXCEPT ![p] = Returned(@, FALSE, "Failed to fetch")]
         ELSE LET m1 == [moon[p] EXCEPT
                            !.results = Append(@, IF r = "result" THEN "bundleId" ELSE "undefined")]
              IN  IF DelayNeeded(m1.i, Len(m1.signed))
                  THEN moon' = [moon EXCEPT ![p] =
                                   [m1 EXCEPT !.pc = "delay", !.respAt = now,
                                              !.timer = DelayDeadline(now)]]
                  ELSE moon' = [moon EXCEPT ![p] = Returned(m1, TRUE, "")]
    /\ UNCHANGED <<component, backend, now, rateLimitState, calls, grants, nonMoonVars>>

\* The delay between two bundles ends.
MoonDelayDone(p) ==
    /\ component = "moonbuy"
    /\ moon[p].pc = "delay"
    /\ now >= moon[p].timer
    /\ LoopTurn(p, [moon[p] EXCEPT !.i = @ + 1])
    /\ UNCHANGED <<component, backend, now, calls, nonMoonVars>>

\* Time passes.  A timer fires at or after its deadline, never before.  Grants
\* older than one second are forgotten.
Tick ==
    /\ component = "moonbuy"
    /\ now + TickMs <= MaxTime
    /\ now' = now + TickMs
    /\ grants' = SelectSeq(grants, LAMBDA g : g > now' - WindowMs)
    /\ UNCHANGED <<component, backend, rateLimitState, moon, calls, nonMoonVars>>

-----------------------------------------------------------------------------
(* Amount strings.  A string typed into an amount field is modelled as the
   sequence of its characters. *)

Digits == {"0", "1", "2", "3", "4", "5", "6", "7", "8", "9"}

DigitValue(c) ==
    CASE c = "0" -> 0 [] c = "1" -> 1 [] c = "2" -> 2 [] c = "3" -> 3 [] c = "4" -> 4
      [] c = "5" -> 5 [] c = "6" -> 6 [] c = "7" -> 7 [] c = "8" -> 8 [] OTHER -> 9

\* Numbers are held in thousandths; NaN is a value of its own.
Unit == 10 * 10 * 10
NaN == [nan |-> TRUE, v |-> 0]
Num(n) == [nan |-> FALSE, v |-> n]

RECURSIVE DigitPrefix(_)
DigitPrefix(s) ==
    IF s # <<>> /\ Head(s) \in Digits THEN <<Head(s)>> \o DigitPrefix(Tail(s)) ELSE <<>>

RECURSIVE DigitsValue(_)
DigitsValue(ds) ==
    IF ds = <<>> THEN 0 ELSE 10 * DigitsValue(SubSeq(ds, 1, Len(ds) - 1)) + DigitValue(ds[Len(ds)])

RECURSIVE Pow10(_)
Pow10(n) == IF n = 0 THEN 1 ELSE 10 * Pow10(n - 1)

AfterDigits(s) == SubSeq(s, Len(DigitPrefix(s)) + 1, Len(s))

\* The fraction digits that follow the integer digits and a point, if any.
FractionDigits(s) ==
    LET rest == AfterDigits(s)
    IN  IF rest # <<>> /\ Head(rest) = "." THEN DigitPrefix(Tail(rest)) ELSE <<>>

\* parseFloat on a string of digits, points and letters: the longest prefix
\* that is a decimal literal, NaN when that prefix has no digit.  undefined
\* (a missing entry) gives NaN as well.
parseFloat(s) ==
    LET ip == DigitPrefix(s)
        fp == FractionDigits(s)
    IN  IF ip = <<>> /\ fp = <<>>
        THEN NaN
        ELSE Num(DigitsValue(ip) * Unit + (DigitsValue(fp) * Unit) \div Pow10(Len(fp)))

\* /^\d*\.?\d*$/.test(value)
MatchesAmountPattern(s) ==
    LET rest == AfterDigits(s)
    IN  \/ rest = <<>>
        \/ /\ Head(rest) = "."
           /\ DigitPrefix(Tail(rest)) = Tail(rest)

\* JavaScript comparisons with a NaN operand are false.
LessEq(a, b) == ~a.nan /\ ~b.nan /\ a.v <= b.v
Greater(a, b) == ~a.nan /\ ~b.nan /\ a.v > b.v

Undefined == <<"undefined">>
DefaultAmount == <<"0", ".", "1">>

\* What the user may type into an amount field.
TypedAmounts ==
    {<<>>, <<".">>, <<"0">>, DefaultAmount, <<"1", "x">>, <<"1", ".", "1", ".">>}

-----------------------------------------------------------------------------
(* CustomBuyModal *)

STEPS_CUSTOMBUY == <<"Select Wallets", "Configure Buy", "Review">>
LastStep == Len(STEPS_CUSTOMBUY) - 1

Min(a, b) == IF a <= b THEN a ELSE b
Max(a, b) == IF a >= b THEN a ELSE b

NoToast == [type |-> "none", msg |-> ""]

\* The useState initial values; the modal is closed.
CbMounted ==
    [isOpen |-> FALSE, currentStep |-> 0, selectedWallets |-> <<>>,
     walletAmounts |-> <<>>, useRpc |-> FALSE, isSubmitting |-> FALSE,
     isConfirmed |-> FALSE, balanceFilter |-> "all"]

CbNoOp == [pc |-> "idle", selected |-> <<>>, useRpc |-> FALSE, pending |-> 0]

Includes(s, x) == \E i \in 1..Len(s) : s[i] = x

Remove(s, x) == SelectSeq(s, LAMBDA y : y # x)

\* walletAmounts[wallet]: the entry, or undefined.
AmountOf(amounts, wallet) ==
    IF wallet \in DOMAIN amounts THEN amounts[wallet] ELSE Undefined

\* !amount, for a string or undefined
Falsy(amount) == amount = <<>> \/ amount = Undefined

\* solBalances.get(address) || 0
BalanceOf(address) ==
    IF address \in DOMAIN solBalances THEN solBalances[address] ELSE 0

\* The options of the balance filter that the model offers.
BalanceFilters == {"all", "highBalance"}

\* filteredWallets with no search term: the wallets with a SOL balance above
\* zero and, under 'highBalance', of at least 0.1 SOL.
filteredWallets ==
    SelectSeq(store, LAMBDA w : /\ BalanceOf(w.address) > 0
                                /\ cb.balanceFilter = "highBalance" =>
                                      BalanceOf(w.address) >= Unit \div 10)

\* The private key returned for a key that matches no stored wallet.
getWalletAddressFromKeyLeaky(privateKey) ==
    IF \E i \in 1..Len(store) : store[i].privateKey = privateKey
    THEN (CHOOSE w \in SeqToSet(store) : w.privateKey = privateKey).address
    ELSE privateKey

getWalletAddressFromKey(privateKey) ==
    IF \E i \in 1..Len(store) : store[i].privateKey = privateKey
    THEN (CHOOSE w \in SeqToSet(store) : w.privateKey = privateKey).address
    ELSE ""

\* The effect on [selectedWallets]: an entry of '0.1' for every selected
\* wallet without a (non-empty) amount, no entry for the others.
SyncedAmounts(amounts, selected) ==
    [w \in SeqToSet(selected) |->
        IF Falsy(AmountOf(amounts, w)) THEN DefaultAmount ELSE amounts[w]]

\* resetForm
CbReset(c) ==
    [c EXCEPT !.selectedWallets = <<>>, !.walletAmounts = <<>>, !.useRpc = FALSE,
              !.isConfirmed = FALSE, !.currentStep = 0, !.balanceFilter = "all"]

\* isOpen becomes true: the effect on [isOpen, tokenAddress] resets the form.
CbOpen ==
    /\ component = "CustomBuyModal"
    /\ ~cb.isOpen
    /\ cb' = [CbReset(cb) EXCEPT !.isOpen = TRUE]
    /\ cbToast' = NoToast
    /\ UNCHANGED <<component, backend, moonVars, envVars, distVars, valVars, appVars, cbOp, cbReqs>>

\* onClose: the X button, or CANCEL at step 0.
CbClose ==
    /\ component = "CustomBuyModal"
    /\ cb.isOpen
    /\ cb' = [cb EXCEPT !.isOpen = FALSE]
    /\ cbToast' = NoToast
    /\ UNCHANGED <<component, backend, moonVars, envVars, distVars, valVars, appVars, cbOp, cbReqs>>

\* toggleWalletSelection, on a row of the list of step 0
toggleWalletSelection ==
    /\ component = "CustomBuyModal"
    /\ cb.isOpen /\ cb.currentStep = 0
    /\ \E i \in 1..Len(filteredWallets) :
         LET k == filteredWallets[i].privateKey
             sel == IF Includes(cb.selectedWallets, k)
                    THEN Remove(cb.selectedWallets, k)
                    ELSE Append(cb.selectedWallets, k)
         IN  cb' = [cb EXCEPT !.selectedWallets = sel,
                              !.walletAmounts = SyncedAmounts(@, sel)]
    /\ cbToast' = NoToast
    /\ UNCHANGED <<component, backend, moonVars, envVars, distVars, valVars, appVars, cbOp, cbReqs>>

\* handleSelectAllWallets
handleSelectAllWallets ==
    /\ component = "CustomBuyModal"
    /\ cb.isOpen /\ cb.currentStep = 0
    /\ LET sel == IF Len(cb.selectedWallets) = Len(filteredWallets)
                  THEN <<>>
                  ELSE [i \in 1..Len(filteredWallets) |-> filteredWallets[i].privateKey]
       IN  cb' = [cb EXCEPT !.selectedWallets = sel,
                            !.walletAmounts = SyncedAmounts(@, sel)]
    /\ cbToast' = NoToast
    /\ UNCHANGED <<component, backend, moonVars, envVars, distVars, valVars, appVars, cbOp, cbReqs>>

\* handleNext, step 1: some amount is missing or not above zero
hasInvalidAmount(amounts) ==
    \E w \in DOMAIN amounts :
        Falsy(amounts[w]) \/ LessEq(parseFloat(amounts[w]), Num(0))

\* handleNext without the validation of the current step
handleNextUnchecked ==
    /\ component = "CustomBuyModal"
    /\ cb.isOpen /\ cb.currentStep < LastStep /\ ~cb.isSubmitting
    /\ cb' = [cb EXCEPT !.currentStep = Min(@ + 1, LastStep)]
    /\ cbToast' = NoToast
    /\ UNCHANGED <<component, backend, moonVars, envVars, distVars, valVars, appVars, cbOp, cbReqs>>

\* handleNext: the NEXT button of steps 0 and 1
handleNext ==
    /\ component = "CustomBuyModal"
    /\ cb.isOpen /\ cb.currentStep < LastStep /\ ~cb.isSubmitting
    /\ IF cb.currentStep = 0 /\ Len(cb.selectedWallets) = 0
       THEN /\ cbToast' = [type |-> "error", msg |-> "Please select at least one wallet"]
            /\ UNCHANGED cb
       ELSE IF cb.currentStep = 1 /\ hasInvalidAmount(cb.walletAmounts)
       THEN /\ cbToast' = [type |-> "error", msg |-> "Please enter valid amounts for all wallets"]
            /\ UNCHANGED cb
       ELSE /\ cb' = [cb EXCEPT !.currentStep = Min(@ + 1, LastStep)]
            /\ cbToast' = NoToast
    /\ UNCHANGED <<component, backend, moonVars, envVars, distVars, valVars, appVars, cbOp, cbReqs>>

\* handleBack: the BACK button of steps 1 and 2
handleBack ==
    /\ component = "CustomBuyModal"
    /\ cb.isOpen /\ cb.currentStep > 0 /\ ~cb.isSubmitting
    /\ cb' = [cb EXCEPT !.currentStep = Max(@ - 1, 0)]
    /\ cbToast' = NoToast
    /\ UNCHANGED <<component, backend, moonVars, envVars, distVars, valVars, appVars, cbOp, cbReqs>>

\* handleWalletAmountChange, on an amount field of step 1
CbAmountChange ==
    /\ component = "CustomBuyModal"
    /\ cb.isOpen /\ cb.currentStep = 1
    /\ \E i \in 1..Len(cb.selectedWallets), value \in TypedAmounts :
         IF value = <<>> \/ MatchesAmountPattern(value)
         THEN cb' = [cb EXCEPT !.walletAmounts =
                        [w \in DOMAIN @ \cup {cb.selectedWallets[i]} |->
                            IF w = cb.selectedWallets[i] THEN value ELSE @[w]]]
         ELSE UNCHANGED cb
    /\ cbToast' = NoToast
    /\ UNCHANGED <<component, backend, moonVars, envVars, distVars, valVars, appVars, cbOp, cbReqs>>

\* The balance filter of step 0
CbSetBalanceFilter ==
    /\ component = "CustomBuyModal"
    /\ cb.isOpen /\ cb.currentStep = 0
    /\ \E value \in BalanceFilters : cb' = [cb EXCEPT !.balanceFilter = value]
    /\ cbToast' = NoToast
    /\ UNCHANGED <<component, backend, moonVars, envVars, distVars, valVars, appVars, cbOp, cbReqs>>

\* The USE RPC switch of step 1
CbToggleUseRpc ==
    /\ component = "CustomBuyModal"
    /\ cb.isOpen /\ cb.currentStep = 1
    /\ cb' = [cb EXCEPT !.useRpc = ~@]
    /\ cbToast' = NoToast
    /\ UNCHANGED <<component, backend, moonVars, envVars, distVars, valVars, appVars, cbOp, cbReqs>>

\* The confirmation checkbox of step 2
CbSetConfirmed ==
    /\ component = "CustomBuyModal"
    /\ cb.isOpen /\ cb.currentStep = LastStep
    /\ cb' = [cb EXCEPT !.isConfirmed = ~@]
    /\ cbToast' = NoToast
    /\ UNCHANGED <<component, backend, moonVars, envVars, distVars, valVars, appVars, cbOp, cbReqs>>

\* getUnsignedTransactions: the request body
CbBuyRequestBody(walletAddresses, amounts, useRpcSetting) ==
    [walletAddresses |-> walletAddresses,
     tokenAddress |-> "Token",
     solAmount |-> Unit \div 10,
     protocol |-> "jupiter",
     amounts |-> amounts,
     useRpc |-> useRpcSetting]

CbNeverUnconfirmed(c) == FALSE

\* if (!isConfirmed) return;
CbUnconfirmed(c) == ~c.isConfirmed

\* handleCustomBuy up to its first await: the submit event of the form at the
\* last step.  The button that raises it is disabled while isSubmitting.
handleCustomBuy ==
    /\ component = "CustomBuyModal"
    /\ cb.isOpen /\ cb.currentStep = LastStep /\ ~cb.isSubmitting
    /\ IF CbUnconfirmed(cb)
       THEN UNCHANGED <<cb, cbOp, cbReqs, cbToast>>
       ELSE LET sel == cb.selectedWallets
                walletAddresses == [i \in 1..Len(sel) |-> getWalletAddressFromKey(sel[i])]
                amounts == [i \in 1..Len(sel) |-> parseFloat(AmountOf(cb.walletAmounts, sel[i]))]
            IN  /\ cb' = [cb EXCEPT !.isSubmitting = TRUE]
                /\ cbOp' = [pc |-> "fetching", selected |-> sel, useRpc |-> cb.useRpc,
                            pending |-> 0]
                /\ cbToast' = NoToast
                /\ cbReqs' = <<[url |-> BuyUrl,
                                 body |-> CbBuyRequestBody(walletAddresses, amounts, cb.useRpc)]>>
    /\ UNCHANGED <<component, backend, moonVars, envVars, distVars, valVars, appVars>>

\* The keypairs are not built: the keys that decode sign, the others are skipped.
signTransactionsUnchecked(bundle, privateKeys) ==
    [threw |-> FALSE, error |-> "", bundle |-> completeBundleSigning(bundle, privateKeys)]

\* signTransactions
signTransactions(bundle, privateKeys) ==
    IF ~bundle.hasTx
    THEN [threw |-> FALSE, error |-> "", bundle |-> [hasTx |-> TRUE, transactions |-> <<>>]]
    ELSE IF \E i \in 1..Len(privateKeys) : Malformed(privateKeys[i])
    THEN [threw |-> TRUE, error |-> "bad secret key", bundle |-> bundle]
    ELSE IF SigningThrows(bundle, privateKeys)
    THEN [threw |-> TRUE, error |-> "Cannot sign with non signer key", bundle |-> bundle]
    ELSE [threw |-> FALSE, error |-> "", bundle |-> completeBundleSigning(bundle, privateKeys)]

\* The catch block of handleCustomBuy without its finally block
CbFailedNoFinally(msg) ==
    /\ cbToast' = [type |-> "error", msg |-> msg]
    /\ cbOp' = CbNoOp
    /\ cbReqs' = <<>>
    /\ UNCHANGED cb

\* The catch and finally blocks of handleCustomBuy
CbFailed(msg) ==
    /\ cb' = [cb EXCEPT !.isSubmitting = FALSE]
    /\ cbToast' = [type |-> "error", msg |-> msg]
    /\ cbOp' = CbNoOp
    /\ cbReqs' = <<>>

\* The end of the try block of handleCustomBuy, and its finally block
CbSucceeded ==
    /\ cb' = [CbReset(cb) EXCEPT !.isOpen = FALSE, !.isSubmitting = FALSE]
    /\ cbToast' = [type |-> "success", msg |-> "Custom buy operation completed successfully"]
    /\ cbOp' = CbNoOp
    /\ cbReqs' = <<>>

\* Only the first signed bundle is posted at once.
SendRequestsOneByOne(signedBundles, useRpcSetting) ==
    [i \in 1..Min(1, Len(signedBundles)) |->
        [url |-> SendUrl,
         body |-> [transactions |-> signedBundles[i].transactions, useRpc |-> useRpcSetting]]]

\* sendSignedTransactions: the requests it starts for the signed bundles
SendRequestsFor(signedBundles, useRpcSetting) ==
    [i \in 1..Len(signedBundles) |->
        [url |-> SendUrl,
         body |-> [transactions |-> signedBundles[i].transactions, useRpc |-> useRpcSetting]]]

\* handleCustomBuy from the answer of /api/tokens/buy to sendSignedTransactions:
\* the bundles are taken from the answer and signed one after the other.
CbSigned(resp, selected) ==
    LET got == getUnsignedTransactions(resp)
        signed == [i \in 1..Len(got.bundles) |-> signTransactions(got.bundles[i], selected)]
    IN  IF got.threw
        THEN [threw |-> TRUE, error |-> got.error, signed |-> <<>>]
        ELSE IF \E i \in 1..Len(signed) : signed[i].threw
        THEN [threw |-> TRUE, signed |-> <<>>,
              error |-> signed[CHOOSE i \in 1..Len(signed) :
                                 /\ signed[i].threw
                                 /\ \A j \in 1..(i - 1) : ~signed[j].threw].error]
        ELSE [threw |-> FALSE, error |-> "",
              signed |-> [i \in 1..Len(signed) |-> signed[i].bundle]]

\* The answer of /api/tokens/buy arrives: the bundles are signed and
\* sendSignedTransactions starts a request for every one of them.
CbFetched ==
    /\ component = "CustomBuyModal"
    /\ cbOp.pc = "fetching"
    /\ \E resp \in BuyResponses :
         LET out == CbSigned(resp, cbOp.selected)
         IN  IF out.threw
             THEN CbFailed(out.error)
             ELSE IF Len(out.signed) = 0
             THEN CbSucceeded
             ELSE /\ cbReqs' = cbReqs \o SendRequestsFor(out.signed, cbOp.useRpc)
                  /\ cbOp' = [cbOp EXCEPT !.pc = "sending", !.pending = Len(out.signed)]
                  /\ cbToast' = NoToast
                  /\ UNCHANGED cb
    /\ UNCHANGED <<component, backend, moonVars, envVars, distVars, valVars, appVars>>

\* An answer of /api/transactions/send arrives; Promise.all settles on the
\* first failure or on the last answer.
CbSent ==
    /\ component = "CustomBuyModal"
    /\ cbOp.pc = "sending"
    /\ \E r \in {"ok", "http", "neterr"} :
         IF r # "ok"
         THEN CbFailed(r)
         ELSE IF cbOp.pending > 1
         THEN /\ cbOp' = [cbOp EXCEPT !.pending = @ - 1]
              /\ cbToast' = NoToast
              /\ UNCHANGED <<cb, cbReqs>>
         ELSE CbSucceeded
    /\ UNCHANGED <<component, backend, moonVars, envVars, distVars, valVars, appVars>>

\* handleDeleteWallet of the application removes a wallet from the list.
DeleteWallet ==
    /\ component = "CustomBuyModal"
    /\ \E i \in 1..Len(store) :
         /\ store' = Remove(store, store[i])
         /\ solBalances' = [a \in DOMAIN solBalances \ {store[i].address} |-> solBalances[a]]
    /\ UNCHANGED <<component, backend, moonVars, cbVars, distVars, valVars, appVars>>

NextCustomBuy ==
    \/ CbOpen
    \/ CbClose
    \/ toggleWalletSelection
    \/ handleSelectAllWallets
    \/ CbSetBalanceFilter
    \/ handleNext
    \/ handleBack
    \/ CbAmountChange
    \/ CbToggleUseRpc
    \/ CbSetConfirmed
    \/ handleCustomBuy
    \/ CbFetched
    \/ CbSent
    \/ DeleteWallet

-----------------------------------------------------------------------------
(* DistributeModal.tsx *)

\* The useState initial values; the modal is closed.
DistMounted ==
    [isOpen |-> FALSE, currentStep |-> 0, isSubmitting |-> FALSE, isConfirmed |-> FALSE,
     selectedRecipientWallets |-> <<>>, selectedSenderWallet |-> "",
     commonAmount |-> <<>>, useCustomAmounts |-> FALSE, walletAmounts |-> <<>>]

DistNoOp == [pc |-> "idle", sender |-> "", recipients |-> <<>>]

\* getWalletBalance(address) || 0
getWalletBalance(address) == BalanceOf(address)

\* x || 0 for a number x
OrZero(x) == IF x.nan THEN Num(0) ELSE x

RECURSIVE SumAmounts(_)
SumAmounts(items) ==
    IF items = <<>> THEN 0
    ELSE OrZero(parseFloat(Head(items).amount)).v + SumAmounts(Tail(items))

\* calculateTotalAmount
calculateTotalAmount(d) ==
    IF d.useCustomAmounts
    THEN Num(SumAmounts(d.walletAmounts))
    ELSE LET each == parseFloat(IF d.commonAmount = <<>> THEN <<"0">> ELSE d.commonAmount)
         IN  IF each.nan THEN NaN ELSE Num(each.v * Len(d.selectedRecipientWallets))

\* hasEmptyAmounts
hasEmptyAmounts(d) ==
    /\ d.useCustomAmounts
    /\ \E i \in 1..Len(d.walletAmounts) :
          /\ Includes(d.selectedRecipientWallets, d.walletAmounts[i].address)
          /\ \/ Falsy(d.walletAmounts[i].amount)
             \/ parseFloat(d.walletAmounts[i].amount) = Num(0)

senderBalance(d) == getWalletBalance(d.selectedSenderWallet)

hasEnoughBalance(d) == LessEq(calculateTotalAmount(d), Num(senderBalance(d)))

\* The disabled attribute of the REVIEW button
ReviewDisabled(d) ==
    \/ d.selectedSenderWallet = ""
    \/ Len(d.selectedRecipientWallets) = 0
    \/ ~hasEnoughBalance(d)
    \/ d.useCustomAmounts /\ (calculateTotalAmount(d) = Num(0) \/ hasEmptyAmounts(d))
    \/ ~d.useCustomAmounts /\ d.commonAmount = <<>>

\* getWalletAmount
getWalletAmount(d, address) ==
    IF \E i \in 1..Len(d.walletAmounts) : d.walletAmounts[i].address = address
    THEN d.walletAmounts[CHOOSE i \in 1..Len(d.walletAmounts) :
                            /\ d.walletAmounts[i].address = address
                            /\ \A j \in 1..(i - 1) : d.walletAmounts[j].address # address].amount
    ELSE <<>>

\* existingAmounts.get(address): the last entry for the address, or undefined
ExistingAmount(d, address) ==
    IF \E i \in 1..Len(d.walletAmounts) : d.walletAmounts[i].address = address
    THEN d.walletAmounts[CHOOSE i \in 1..Len(d.walletAmounts) :
                            /\ d.walletAmounts[i].address = address
                            /\ \A j \in (i + 1)..Len(d.walletAmounts) :
                                  d.walletAmounts[j].address # address].amount
    ELSE Undefined

\* updateWalletAmounts that gives every entry the common amount in both modes
updateWalletAmountsCommonOnly(d) ==
    [d EXCEPT !.walletAmounts =
        [i \in 1..Len(d.selectedRecipientWallets) |->
            [address |-> d.selectedRecipientWallets[i], amount |-> d.commonAmount]]]

\* updateWalletAmounts, as the effects on [selectedRecipientWallets] and on
\* [useCustomAmounts, commonAmount] run it
updateWalletAmounts(d) ==
    [d EXCEPT !.walletAmounts =
        [i \in 1..Len(d.selectedRecipientWallets) |->
            [address |-> d.selectedRecipientWallets[i],
             amount |-> IF d.useCustomAmounts /\ ~Falsy(ExistingAmount(d, d.selectedRecipientWallets[i]))
                        THEN ExistingAmount(d, d.selectedRecipientWallets[i])
                        ELSE d.commonAmount]]]

\* resetForm
DistReset(d) ==
    [d EXCEPT !.currentStep = 0, !.isConfirmed = FALSE, !.selectedRecipientWallets = <<>>,
              !.selectedSenderWallet = "", !.commonAmount = <<>>,
              !.useCustomAmounts = FALSE, !.walletAmounts = <<>>]

\* the recipient list without the exclusion of the sender
getAvailableRecipientWalletsAll(d) == store

getAvailableRecipientWallets(d) ==
    SelectSeq(store, LAMBDA w : w.address # d.selectedSenderWallet)

getAvailableSenderWallets(d) ==
    SelectSeq(store, LAMBDA w : /\ ~Includes(d.selectedRecipientWallets, w.address)
                                /\ getWalletBalance(w.address) > 0)

DistFrame == UNCHANGED <<component, backend, moonVars, envVars, cbVars, valVars, appVars>>

\* isOpen becomes true: the effect on [isOpen] resets the form.
DistOpen ==
    /\ component = "DistributeModal"
    /\ ~dist.isOpen
    /\ dist' = [DistReset(dist) EXCEPT !.isOpen = TRUE]
    /\ distToast' = NoToast
    /\ UNCHANGED distOp /\ DistFrame

\* onClose: the X button, or CANCEL at step 0
DistClose ==
    /\ component = "DistributeModal"
    /\ dist.isOpen
    /\ dist' = [dist EXCEPT !.isOpen = FALSE]
    /\ distToast' = NoToast
    /\ UNCHANGED distOp /\ DistFrame

\* A click on a row of the sender list
DistSelectSender ==
    /\ component = "DistributeModal"
    /\ dist.isOpen /\ dist.currentStep = 0
    /\ \E i \in 1..Len(getAvailableSenderWallets(dist)) :
         dist' = [dist EXCEPT !.selectedSenderWallet = getAvailableSenderWallets(dist)[i].address]
    /\ distToast' = NoToast
    /\ UNCHANGED distOp /\ DistFrame

\* toggleRecipientWalletSelection, on a row of the recipient list
toggleRecipientWalletSelection ==
    /\ component = "DistributeModal"
    /\ dist.isOpen /\ dist.currentStep = 0
    /\ \E i \in 1..Len(getAvailableRecipientWallets(dist)) :
         LET a == getAvailableRecipientWallets(dist)[i].address
         IN  dist' = updateWalletAmounts(
                 [dist EXCEPT !.selectedRecipientWallets =
                     IF Includes(@, a) THEN Remove(@, a) ELSE Append(@, a)])
    /\ distToast' = NoToast
    /\ UNCHANGED distOp /\ DistFrame

\* handleSelectAllRecipients
handleSelectAllRecipients ==
    /\ component = "DistributeModal"
    /\ dist.isOpen /\ dist.currentStep = 0
    /\ LET avail == getAvailableRecipientWallets(dist)
       IN  dist' = updateWalletAmounts(
               [dist EXCEPT !.selectedRecipientWallets =
                   IF Len(@) = Len(avail) THEN <<>>
                   ELSE [i \in 1..Len(avail) |-> avail[i].address]])
    /\ distToast' = NoToast
    /\ UNCHANGED distOp /\ DistFrame

\* The CUSTOM AMOUNT PER WALLET switch
DistToggleCustomAmounts ==
    /\ component = "DistributeModal"
    /\ dist.isOpen /\ dist.currentStep = 0
    /\ dist' = updateWalletAmounts([dist EXCEPT !.useCustomAmounts = ~@])
    /\ distToast' = NoToast
    /\ UNCHANGED distOp /\ DistFrame

\* The common amount field (either of the two)
DistSetCommonAmount ==
    /\ component = "DistributeModal"
    /\ dist.isOpen /\ dist.currentStep = 0
    /\ ~dist.useCustomAmounts \/ Len(dist.selectedRecipientWallets) > 0
    /\ \E value \in TypedAmounts :
         IF value = <<>> \/ MatchesAmountPattern(value)
         THEN dist' = updateWalletAmounts([dist EXCEPT !.commonAmount = value])
         ELSE UNCHANGED dist
    /\ distToast' = NoToast
    /\ UNCHANGED distOp /\ DistFrame

\* handleWalletAmountChange, on the amount field of a selected recipient
DistAmountChange ==
    /\ component = "DistributeModal"
    /\ dist.isOpen /\ dist.currentStep = 0 /\ dist.useCustomAmounts
    /\ \E i \in 1..Len(dist.selectedRecipientWallets), value \in TypedAmounts :
         IF value = <<>> \/ MatchesAmountPattern(value)
         THEN dist' = [dist EXCEPT !.walletAmounts =
                          [k \in 1..Len(@) |->
                              IF @[k].address = dist.selectedRecipientWallets[i]
                              THEN [@[k] EXCEPT !.amount = value]
                              ELSE @[k]]]
         ELSE UNCHANGED dist
    /\ distToast' = NoToast
    /\ UNCHANGED distOp /\ DistFrame

\* applyCommonAmountToAll
applyCommonAmountToAll ==
    /\ component = "DistributeModal"
    /\ dist.isOpen /\ dist.currentStep = 0 /\ dist.useCustomAmounts
    /\ Len(dist.selectedRecipientWallets) > 0 /\ dist.commonAmount # <<>>
    /\ dist' = [dist EXCEPT !.walletAmounts =
                   [k \in 1..Len(@) |-> [@[k] EXCEPT !.amount = dist.commonAmount]]]
    /\ distToast' = NoToast
    /\ UNCHANGED distOp /\ DistFrame

\* The REVIEW button
DistReview ==
    /\ component = "DistributeModal"
    /\ dist.isOpen /\ dist.currentStep = 0
    /\ ~ReviewDisabled(dist)
    /\ dist' = [dist EXCEPT !.currentStep = 1]
    /\ distToast' = NoToast
    /\ UNCHANGED distOp /\ DistFrame

\* The BACK button of the review step
DistBack ==
    /\ component = "DistributeModal"
    /\ dist.isOpen /\ dist.currentStep = 1
    /\ dist' = [dist EXCEPT !.currentStep = 0]
    /\ distToast' = NoToast
    /\ UNCHANGED distOp /\ DistFrame

\* The confirmation checkbox of the review step
DistSetConfirmed ==
    /\ component = "DistributeModal"
    /\ dist.isOpen /\ dist.currentStep = 1
    /\ dist' = [dist EXCEPT !.isConfirmed = ~@]
    /\ distToast' = NoToast
    /\ UNCHANGED distOp /\ DistFrame

\* getPrivateKeyByAddress
getPrivateKeyByAddress(address) ==
    IF \E i \in 1..Len(store) : store[i].address = address
    THEN (CHOOSE w \in SeqToSet(store) : w.address = address).privateKey
    ELSE ""

\* The recipients handed on when the filter keeps only amounts above zero
recipientWalletsPositiveOnly(d) ==
    LET chosen == SelectSeq(d.walletAmounts,
                            LAMBDA w : Includes(d.selectedRecipientWallets, w.address))
        mapped == [i \in 1..Len(chosen) |->
                      [address |-> chosen[i].address,
                       privateKey |-> getPrivateKeyByAddress(chosen[i].address),
                       amount |-> chosen[i].amount]]
    IN  SelectSeq(mapped, LAMBDA w : w.privateKey # "" /\ Greater(parseFloat(w.amount), Num(0)))

\* The recipients handleDistribute hands on
recipientWallets(d) ==
    LET chosen == SelectSeq(d.walletAmounts,
                            LAMBDA w : Includes(d.selectedRecipientWallets, w.address))
        mapped == [i \in 1..Len(chosen) |->
                      [address |-> chosen[i].address,
                       privateKey |-> getPrivateKeyByAddress(chosen[i].address),
                       amount |-> chosen[i].amount]]
    IN  SelectSeq(mapped, LAMBDA w : w.privateKey # "" /\ w.amount # <<>>)

\* if (!isConfirmed) return;
DistUnconfirmed(d) == ~d.isConfirmed

\* handleDistribute up to its await: a click on DISTRIBUTE SOL, which is
\* disabled while isSubmitting.  validateDistributionInputs and
\* batchDistributeSOL are imported from utils/distribute; the first may accept
\* or refuse the inputs.
handleDistribute ==
    /\ component = "DistributeModal"
    /\ dist.isOpen /\ dist.currentStep = 1 /\ ~dist.isSubmitting
    /\ IF DistUnconfirmed(dist)
       THEN UNCHANGED <<dist, distOp, distToast>>
       ELSE IF getPrivateKeyByAddress(dist.selectedSenderWallet) = ""
       THEN /\ distToast' = [type |-> "error", msg |-> "Sender wallet private key not found"]
            /\ UNCHANGED <<dist, distOp>>
       ELSE \E valid \in BOOLEAN :
              IF ~valid
              THEN /\ distToast' = [type |-> "error", msg |-> "Invalid distribution data"]
                   /\ UNCHANGED <<dist, distOp>>
              ELSE /\ dist' = [dist EXCEPT !.isSubmitting = TRUE]
                   /\ distOp' = [pc |-> "distributing",
                                 sender |-> dist.selectedSenderWallet,
                                 recipients |-> recipientWallets(dist)]
                   /\ distToast' = NoToast
    /\ DistFrame

\* batchDistributeSOL settles: success, a failure result, or an exception
DistSettled ==
    /\ component = "DistributeModal"
    /\ distOp.pc = "distributing"
    /\ \E r \in {"success", "failure", "throws"} :
         /\ dist' = IF r = "success"
                    THEN [DistReset(dist) EXCEPT !.isOpen = FALSE, !.isSubmitting = FALSE]
                    ELSE [dist EXCEPT !.isSubmitting = FALSE]
         /\ distToast' = IF r = "success"
                         THEN [type |-> "success", msg |-> "SOL distributed successfully"]
                         ELSE [type |-> "error", msg |-> "Distribution failed"]
    /\ distOp' = DistNoOp
    /\ DistFrame

NextDistribute ==
    \/ DistOpen
    \/ DistClose
    \/ DistSelectSender
    \/ toggleRecipientWalletSelection
    \/ handleSelectAllRecipients
    \/ DistToggleCustomAmounts
    \/ DistSetCommonAmount
    \/ DistAmountChange
    \/ applyCommonAmountToAll
    \/ DistReview
    \/ DistBack
    \/ DistSetConfirmed
    \/ handleDistribute
    \/ DistSettled

-----------------------------------------------------------------------------
(* utils/moonbuy.ts: validateMoonBuyInputs *)

NotCalled == [called |-> FALSE, valid |-> FALSE, error |-> <<>>]

ValidResult == [called |-> TRUE, valid |-> TRUE, error |-> <<>>]

Invalid(error) == [called |-> TRUE, valid |-> FALSE, error |-> error]

\* walletBalances.get(address) || 0, in thousandths of a SOL
BalanceOrZero(walletBalances, address) ==
    IF address \in DOMAIN walletBalances /\ ~walletBalances[address].nan
    THEN walletBalances[address].v
    ELSE 0

\* balance <= tokenConfig.solAmount refuses a wallet that holds the exact amount.
BalanceTooLowStrict(balance, solAmount) == balance <= solAmount.v

\* balance < tokenConfig.solAmount
BalanceTooLow(balance, solAmount) == balance < solAmount.v

\* The for loop over the wallets
RECURSIVE ValidateWallets(_, _, _)
ValidateWallets(wallets, solAmount, walletBalances) ==
    IF wallets = <<>> THEN ValidResult
    ELSE LET wallet == Head(wallets)
         IN  IF wallet.address = "" \/ wallet.privateKey = ""
             THEN Invalid(<<"Invalid wallet data">>)
             ELSE IF BalanceTooLow(BalanceOrZero(walletBalances, wallet.address), solAmount)
             THEN Invalid(<<"insufficient balance", wallet.address>>)
             ELSE ValidateWallets(Tail(wallets), solAmount, walletBalances)

validateMoonBuyInputs(wallets, tokenConfig, walletBalances) ==
    IF tokenConfig.tokenAddress = ""
    THEN Invalid(<<"Invalid token address">>)
    ELSE IF tokenConfig.solAmount.nan \/ tokenConfig.solAmount.v <= 0
    THEN Invalid(<<"Invalid SOL amount">>)
    ELSE IF Len(wallets) = 0
    THEN Invalid(<<"No wallets provided">>)
    ELSE ValidateWallets(wallets, tokenConfig.solAmount, walletBalances)

\* The call is made on the arguments.
Validate ==
    /\ component = "validateMoonBuyInputs"
    /\ ~vOut.called
    /\ vOut' = validateMoonBuyInputs(vIn.wallets, vIn.tokenConfig, vIn.walletBalances)
    /\ UNCHANGED <<component, backend, moonVars, envVars, cbVars, distVars, appVars, vIn>>

-----------------------------------------------------------------------------
(* App.tsx: the wallet manager.  createNewWallet, importWallet, deleteWallet,
   fetchSolBalance, saveWalletsToCookies and loadWalletsFromCookies come from
   ./Utils and fetchSolBalances from ./Manager. *)

\* At most MaxList wallets in the list and MaxOps asynchronous calls in flight.
MaxList == 2
MaxOps == 2

\* The balance every fetch returns
Bal == Unit

NoOut == [toast |-> "", console |-> ""]

Toast(msg) == [toast |-> msg, console |-> ""]

ConsoleError(msg) == [toast |-> "", console |-> msg]

\* The useState initial values that matter; importError "" stands for null.
AppMounted(conn) ==
    [connection |-> conn, importError |-> "", isRefreshing |-> FALSE,
     isProcessingFile |-> FALSE]

\* An asynchronous call in flight: the handler, the await it is at, and the
\* values of its closure (the wallet addresses and balances of its render).
AppOp(kind, pc, key, keys, seen, bals) ==
    [kind |-> kind, pc |-> pc, key |-> key, keys |-> keys, seen |-> seen, bals |-> bals]

AddressesOf(ws) == {ws[i].address : i \in 1..Len(ws)}

\* The calls in flight are a bag: one more, one less, one at another await.
Started(ops, op) == ops (+) SetToBag({op})

Settled(ops, op) == ops (-) SetToBag({op})

Moved(ops, op, pc) == Started(Settled(ops, op), [op EXCEPT !.pc = pc])

\* new Map(prev).set(address, balance)
MapSet(f, a, v) == [x \in DOMAIN f \cup {a} |-> IF x = a THEN v ELSE f[x]]

\* new Map(prev).delete(address)
MapDelete(f, a) == [x \in DOMAIN f \ {a} |-> f[x]]

\* The id of a new wallet: one no wallet of ws has.
FreshId(ws) ==
    CHOOSE n \in 1..(Len(ws) + 1) :
       /\ \A i \in 1..Len(ws) : ws[i].id # n
       /\ \A m \in 1..(n - 1) : \E i \in 1..Len(ws) : ws[i].id = m

\* importWallet(key): the wallet of the key, or an error for a key that does
\* not decode.
importWallet(key) ==
    IF Malformed(key)
    THEN [error |-> "Invalid private key format", address |-> ""]
    ELSE [error |-> "", address |-> PublicKeyOf(key)]

\* deleteWallet(wallets, id)
deleteWallet(ws, id) == SelectSeq(ws, LAMBDA w : w.id # id)

\* The effect on [wallets]: saveWalletsToCookies unless the list is empty.
SavedAfter(ws) == IF Len(ws) > 0 THEN ws ELSE cookie

\* The effect on [connection, wallets.length]: fetchSolBalances is started
\* when the list has changed its length to more than nothing.
WithBalanceEffect(ops, ws) ==
    IF app.connection /\ Len(ws) > 0 /\ Len(ws) # Len(store)
    THEN Started(ops, AppOp("effect", "fetchSolBalances", "", <<>>, AddressesOf(ws), <<>>))
    ELSE ops

\* setWallets(ws) and the effects that follow it
SetWallets(ops, ws) ==
    /\ Len(ws) <= MaxList
    /\ BagCardinality(WithBalanceEffect(ops, ws)) <= MaxOps
    /\ store' = ws
    /\ cookie' = SavedAfter(ws)
    /\ appOps' = WithBalanceEffect(ops, ws)

\* Keys createNewWallet may generate, and texts the user may import.
GeneratedKeys == {"K3"}
ImportKeys == {"", "K1", "Kbad"}

\* The lines of the files the user may upload
FileContents == {<<"K1", "K1">>, <<"Kbad", "not a key">>, <<"not a key">>}

\* /^[1-9A-HJ-NP-Za-km-z]{64,88}$/ on a trimmed line
base58Pattern(line) == line \in PrivateKeys

AppFrame == UNCHANGED <<component, backend, moonVars, cbVars, distVars, valVars>>

\* handleCreateWallet up to its first await
handleCreateWallet ==
    /\ component = "WalletManager"
    /\ IF ~app.connection
       THEN UNCHANGED appOps
       ELSE /\ BagCardinality(appOps) < MaxOps
            /\ \E key \in GeneratedKeys :
                 /\ \A i \in 1..Len(store) : store[i].privateKey # key
                 /\ \A op \in BagToSet(appOps) : op.key # key
                 /\ appOps' = Started(appOps,
                        AppOp("handleCreateWallet", "createNewWallet", key, <<>>, {}, <<>>))
    /\ appOut' = NoOut
    /\ UNCHANGED <<app, cookie, envVars>> /\ AppFrame

\* createNewWallet settles: the wallet is appended and saved, or the catch
\* block logs the error.
CreateWalletResolved ==
    /\ component = "WalletManager"
    /\ \E op \in BagToSet(appOps), ok \in BOOLEAN :
         /\ op.kind = "handleCreateWallet" /\ op.pc = "createNewWallet"
         /\ IF ok
            THEN /\ SetWallets(Moved(appOps, op, "fetchSolBalance"),
                        Append(store, [id |-> FreshId(store),
                                       address |-> PublicKeyOf(op.key),
                                       privateKey |-> op.key]))
                 /\ appOut' = NoOut
            ELSE /\ appOps' = Settled(appOps, op)
                 /\ appOut' = ConsoleError("Error creating wallet:")
                 /\ UNCHANGED <<store, cookie>>
    /\ UNCHANGED <<app, solBalances>> /\ AppFrame

\* fetchSolBalance of the created wallet settles.
CreateBalanceFetched ==
    /\ component = "WalletManager"
    /\ \E op \in BagToSet(appOps), ok \in BOOLEAN :
         /\ op.kind = "handleCreateWallet" /\ op.pc = "fetchSolBalance"
         /\ appOps' = Settled(appOps, op)
         /\ IF ok
            THEN /\ solBalances' = MapSet(solBalances, PublicKeyOf(op.key), Bal)
                 /\ appOut' = Toast("Wallet created successfully")
            ELSE /\ appOut' = ConsoleError("Error creating wallet:")
                 /\ UNCHANGED solBalances
    /\ UNCHANGED <<app, store, cookie>> /\ AppFrame

\* handleImportWallet up to its first await
handleImportWallet ==
    /\ component = "WalletManager"
    /\ \E importKey \in ImportKeys :
         IF ~app.connection \/ importKey = ""
         THEN /\ app' = [app EXCEPT !.importError = "Please enter a private key"]
              /\ UNCHANGED appOps
         ELSE /\ BagCardinality(appOps) < MaxOps
              /\ appOps' = Started(appOps,
                     AppOp("handleImportWallet", "importWallet", importKey, <<>>,
                           AddressesOf(store), <<>>))
              /\ UNCHANGED app
    /\ appOut' = NoOut
    /\ UNCHANGED <<cookie, envVars>> /\ AppFrame

\* importWallet settles: error, duplicate among the wallets of the render
\* that handled the click, or the wallet is appended.
ImportWalletResolved ==
    /\ component = "WalletManager"
    /\ \E op \in BagToSet(appOps) :
         LET got == importWallet(op.key)
         IN  /\ op.kind = "handleImportWallet" /\ op.pc = "importWallet"
             /\ IF got.error # ""
                THEN /\ app' = [app EXCEPT !.importError = got.error]
                     /\ appOps' = Settled(appOps, op)
                     /\ UNCHANGED <<store, cookie>>
                ELSE IF got.address \in op.seen
                THEN /\ app' = [app EXCEPT !.importError = "Wallet already exists"]
                     /\ appOps' = Settled(appOps, op)
                     /\ UNCHANGED <<store, cookie>>
                ELSE /\ SetWallets(Moved(appOps, op, "fetchSolBalance"),
                            Append(store, [id |-> FreshId(store), address |-> got.address,
                                           privateKey |-> op.key]))
                     /\ UNCHANGED app
    /\ appOut' = NoOut
    /\ UNCHANGED solBalances /\ AppFrame

\* fetchSolBalance of the imported wallet settles.
ImportBalanceFetched ==
    /\ component = "WalletManager"
    /\ \E op \in BagToSet(appOps), ok \in BOOLEAN :
         /\ op.kind = "handleImportWallet" /\ op.pc = "fetchSolBalance"
         /\ appOps' = Settled(appOps, op)
         /\ IF ok
            THEN /\ solBalances' = MapSet(solBalances, PublicKeyOf(op.key), Bal)
                 /\ app' = [app EXCEPT !.importError = ""]
            ELSE /\ app' = [app EXCEPT !.importError = "Failed to import wallet"]
                 /\ UNCHANGED solBalances
    /\ appOut' = NoOut
    /\ UNCHANGED <<store, cookie>> /\ AppFrame

\* handleFileUpload up to its first await
handleFileUpload ==
    /\ component = "WalletManager"
    /\ \E lines \in FileContents :
         IF ~app.connection
         THEN UNCHANGED <<app, appOps>>
         ELSE /\ BagCardinality(appOps) < MaxOps
              /\ app' = [app EXCEPT !.isProcessingFile = TRUE, !.importError = ""]
              /\ appOps' = Started(appOps,
                     AppOp("handleFileUpload", "file.text", "", lines,
                           AddressesOf(store), solBalances))
    /\ appOut' = NoOut
    /\ UNCHANGED <<cookie, envVars>> /\ AppFrame

\* importWalletsSequentially: the wallets pushed for the keys, given the ones
\* pushed so far and the addresses of the render that handled the upload.
RECURSIVE importedWallets(_, _, _)
importedWallets(keys, seen, pushed) ==
    IF keys = <<>> THEN pushed
    ELSE LET got == importWallet(Head(keys))
         IN  IF got.error # "" \/ got.address \in seen
             THEN importedWallets(Tail(keys), seen, pushed)
             ELSE importedWallets(Tail(keys), seen,
                      Append(pushed, [id |-> FreshId(store \o pushed), address |-> got.address,
                                      privateKey |-> Head(keys)]))

\* newSolBalances after the loop
RECURSIVE newSolBalances(_, _)
newSolBalances(bals, ws) ==
    IF ws = <<>> THEN bals ELSE newSolBalances(MapSet(bals, Head(ws).address, Bal), Tail(ws))

\* The rest of handleFileUpload.  Between its awaits the loop touches only
\* its own variables, so it is run here in one step.
FileImported ==
    /\ component = "WalletManager"
    /\ \E op \in BagToSet(appOps), readOk \in BOOLEAN, balanceOk \in BOOLEAN :
         LET foundKeys == SelectSeq(op.keys, base58Pattern)
             pushed == importedWallets(foundKeys, op.seen, <<>>)
         IN  /\ op.kind = "handleFileUpload"
             /\ IF ~readOk
                THEN /\ app' = [app EXCEPT !.importError = "Error processing file",
                                           !.isProcessingFile = FALSE]
                     /\ appOps' = Settled(appOps, op)
                     /\ appOut' = NoOut
                     /\ UNCHANGED <<store, cookie, solBalances>>
                ELSE IF Len(foundKeys) = 0
                THEN /\ app' = [app EXCEPT !.importError = "No valid private keys found in file",
                                           !.isProcessingFile = FALSE]
                     /\ appOps' = Settled(appOps, op)
                     /\ appOut' = NoOut
                     /\ UNCHANGED <<store, cookie, solBalances>>
                ELSE /\ solBalances' = IF balanceOk THEN newSolBalances(op.bals, pushed)
                                       ELSE op.bals
                     /\ IF Len(pushed) = 0
                        THEN /\ app' = [app EXCEPT !.importError = "No new wallets could be imported",
                                                   !.isProcessingFile = FALSE]
                             /\ appOps' = Settled(appOps, op)
                             /\ appOut' = NoOut
                             /\ UNCHANGED <<store, cookie>>
                        ELSE /\ SetWallets(Settled(appOps, op), store \o pushed)
                             /\ app' = [app EXCEPT !.isProcessingFile = FALSE]
                             /\ appOut' = Toast("Successfully imported wallets")
    /\ AppFrame

\* handleDeleteWallet
handleDeleteWallet ==
    /\ component = "WalletManager"
    /\ \E i \in 1..Len(store) :
         /\ solBalances' = MapDelete(solBalances, store[i].address)
         /\ SetWallets(appOps, deleteWallet(store, store[i].id))
    /\ appOut' = NoOut
    /\ UNCHANGED app /\ AppFrame

\* handleRefresh up to its await
handleRefresh ==
    /\ component = "WalletManager"
    /\ IF ~app.connection
       THEN UNCHANGED <<app, appOps>>
       ELSE /\ BagCardinality(appOps) < MaxOps
            /\ app' = [app EXCEPT !.isRefreshing = TRUE]
            /\ appOps' = Started(appOps,
                   AppOp("handleRefresh", "fetchSolBalances", "", <<>>, AddressesOf(store), <<>>))
    /\ appOut' = NoOut
    /\ UNCHANGED <<cookie, envVars>> /\ AppFrame

\* fetchSolBalances settles, for handleRefresh or for the effect: the map is
\* replaced by the balances of the wallets it was called with, or the call
\* rejects.  handleRefresh logs the rejection and clears isRefreshing.
BalancesFetched ==
    /\ component = "WalletManager"
    /\ \E op \in BagToSet(appOps), ok \in BOOLEAN :
         /\ op.pc = "fetchSolBalances"
         /\ appOps' = Settled(appOps, op)
         /\ solBalances' = IF ok THEN [a \in op.seen |-> Bal] ELSE solBalances
         /\ app' = IF op.kind = "handleRefresh"
                   THEN [app EXCEPT !.isRefreshing = FALSE] ELSE app
         /\ appOut' = IF op.kind = "handleRefresh" /\ ~ok
                      THEN ConsoleError("Error refreshing balances:") ELSE NoOut
    /\ UNCHANGED <<store, cookie>> /\ AppFrame

\* The page is loaded again: initializeApp takes the wallets from the cookie,
\* and the effects on [connection] fetch and refresh the balances.
Reload ==
    /\ component = "WalletManager"
    /\ store' = cookie
    /\ solBalances' = <<>>
    /\ app' = [AppMounted(app.connection) EXCEPT
                  !.isRefreshing = app.connection /\ Len(cookie) > 0]
    /\ appOps' = IF app.connection /\ Len(cookie) > 0
                 THEN SetToBag({AppOp("effect", "fetchSolBalances", "", <<>>, AddressesOf(cookie), <<>>),
                                AppOp("handleRefresh", "fetchSolBalances", "", <<>>, AddressesOf(cookie), <<>>)})
                 ELSE EmptyBag
    /\ appOut' = NoOut
    /\ UNCHANGED cookie /\ AppFrame

NextApp ==
    \/ handleCreateWallet
    \/ CreateWalletResolved
    \/ CreateBalanceFetched
    \/ handleImportWallet
    \/ ImportWalletResolved
    \/ ImportBalanceFetched
    \/ handleFileUpload
    \/ FileImported
    \/ handleDeleteWallet
    \/ handleRefresh
    \/ BalancesFetched
    \/ Reload

-----------------------------------------------------------------------------
(* Initial states and specifications *)

\* The wallet lists the application may hold; the second has a wallet whose
\* stored private key is not a valid secret key.
StoredWallets ==
    {<<[id |-> 1, address |-> "A1", privateKey |-> "K1"],
       [id |-> 2, address |-> "A2", privateKey |-> "K2"]>>,
     <<[id |-> 1, address |-> "A1", privateKey |-> "K1"],
       [id |-> 3, address |-> "A3", privateKey |-> "Kbad"]>>}

\* SOL balances, in thousandths: 2, 0.05 and 0 SOL
Rich == 2 * Unit
Poor == Unit \div 20

BalancesFor(ws) ==
    {[a \in {ws[1].address, ws[2].address} |-> IF a = ws[1].address THEN b ELSE Rich] :
        b \in {Rich, Poor, 0}}

\* rateLimitState is initialised when the module is loaded; nothing runs yet.
MoonModuleLoaded ==
    /\ now = 0
    /\ rateLimitState = [count |-> 0, lastReset |-> 0]
    /\ moon = [p \in Callers |-> MoonIdle]
    /\ grants = <<>>

NoCalls == [p \in Callers |-> [will |-> FALSE, wallets |-> <<>>]]

CbUnused == cb = CbMounted /\ cbOp = CbNoOp /\ cbReqs = <<>> /\ cbToast = NoToast

DistUnused == dist = DistMounted /\ distOp = DistNoOp /\ distToast = NoToast

NoArguments == [wallets |-> <<>>, tokenConfig |-> [tokenAddress |-> "", solAmount |-> NaN],
                walletBalances |-> <<>>]

ValUnused == vIn = NoArguments /\ vOut = NotCalled

AppUnused == app = AppMounted(FALSE) /\ appOps = EmptyBag /\ cookie = <<>> /\ appOut = NoOut

EnvUnused == store = <<>> /\ solBalances = <<>>

\* Concurrent invocations against a backend that answers every request.
InitLimiter ==
    /\ component = "moonbuy"
    /\ MoonModuleLoaded
    /\ backend = "healthy"
    /\ calls = [p \in Callers |-> [will |-> TRUE, wallets |-> <<W1, W2>>]]
    /\ CbUnused /\ DistUnused /\ ValUnused /\ AppUnused /\ EnvUnused

\* One invocation, with any wallets, against a backend that may fail.
InitOneCall ==
    /\ component = "moonbuy"
    /\ MoonModuleLoaded
    /\ backend = "any"
    /\ \E ws \in MoonWalletInputs :
         calls = [p \in Callers |-> [will |-> p = "a", wallets |-> IF p = "a" THEN ws ELSE <<>>]]
    /\ CbUnused /\ DistUnused /\ ValUnused /\ AppUnused /\ EnvUnused

InitMoonBuy == InitLimiter \/ InitOneCall

NextMoonBuy ==
    \/ \E p \in Callers : MoonStart(p)
    \/ \E p \in Callers : MoonFetched(p)
    \/ \E p \in Callers : MoonRateWake(p)
    \/ \E p \in Callers : MoonSent(p)
    \/ \E p \in Callers : MoonDelayDone(p)
    \/ Tick

SpecMoonBuy == InitMoonBuy /\ [][NextMoonBuy]_vars

\* The Custom Buy modal is mounted and closed; the wallet list and the
\* balances are what the application holds.
InitCustomBuy ==
    /\ component = "CustomBuyModal"
    /\ MoonModuleLoaded /\ calls = NoCalls
    /\ backend = "any"
    /\ store \in StoredWallets
    /\ solBalances \in BalancesFor(store)
    /\ CbUnused /\ DistUnused /\ ValUnused /\ AppUnused

SpecCustomBuy == InitCustomBuy /\ [][NextCustomBuy]_vars

\* The wallets prop of the Distribute modal: a rich, a poor and an empty wallet.
DistributeWallets ==
    <<[id |-> 1, address |-> "A1", privateKey |-> "K1"],
      [id |-> 2, address |-> "A2", privateKey |-> "K2"],
      [id |-> 3, address |-> "A3", privateKey |-> "K3"]>>

\* The Distribute modal is mounted and closed.
InitDistribute ==
    /\ component = "DistributeModal"
    /\ MoonModuleLoaded /\ calls = NoCalls
    /\ backend = "any"
    /\ store = DistributeWallets
    /\ solBalances = [a \in {"A1", "A2", "A3"} |->
                         IF a = "A1" THEN Rich ELSE IF a = "A2" THEN Poor ELSE 0]
    /\ CbUnused /\ DistUnused /\ ValUnused /\ AppUnused

SpecDistribute == InitDistribute /\ [][NextDistribute]_vars

\* Arguments of validateMoonBuyInputs: up to MaxWallets wallets with or without
\* address and key, a token address or none, an amount that is NaN, zero,
\* negative or one SOL, and balances that are absent, NaN, below or at one SOL.
MaxWallets == 2

ValWallets ==
    {[address |-> "A1", privateKey |-> "K1"], [address |-> "A2", privateKey |-> "K2"],
     [address |-> "", privateKey |-> "K3"], [address |-> "A2", privateKey |-> ""]}

ValBalances ==
    UNION {[D -> {NaN, Num(Unit \div 2), Num(Unit)}] : D \in SUBSET {"A1", "A2"}}

InitValidate ==
    /\ component = "validateMoonBuyInputs"
    /\ MoonModuleLoaded /\ calls = NoCalls
    /\ backend = "any"
    /\ CbUnused /\ DistUnused /\ AppUnused /\ EnvUnused
    /\ vOut = NotCalled
    /\ vIn \in [wallets : SeqsUpTo(ValWallets, MaxWallets),
                 tokenConfig : [tokenAddress : {"", "Token"},
                                solAmount : {NaN, Num(0), Num(0 - Unit), Num(Unit)}],
                 walletBalances : ValBalances]

SpecValidate == InitValidate /\ [][Validate]_vars

\* The wallet manager is mounted with no saved wallets.
InitApp ==
    /\ component = "WalletManager"
    /\ MoonModuleLoaded /\ calls = NoCalls
    /\ backend = "any"
    /\ CbUnused /\ DistUnused /\ ValUnused /\ EnvUnused
    /\ \E conn \in BOOLEAN : app = AppMounted(conn)
    /\ appOps = EmptyBag /\ cookie = <<>> /\ appOut = NoOut

SpecApp == InitApp /\ [][NextApp]_vars

\* Moon Buy and Custom Buy, the two operations that buy a token
InitBuy == InitMoonBuy \/ InitCustomBuy

NextBuy == NextMoonBuy \/ NextCustomBuy

SpecBuy == InitBuy /\ [][NextBuy]_vars

\* The two wizards
InitWizards == InitCustomBuy \/ InitDistribute

NextWizards == NextCustomBuy \/ NextDistribute

SpecWizards == InitWizards /\ [][NextWizards]_vars

\* The two wizards when every request eventually resolves or rejects: the
\* continuation of an await that is pending is eventually run by the event loop.
SpecWizardsFair ==
    /\ SpecWizards
    /\ WF_vars(CbFetched) /\ WF_vars(CbSent) /\ WF_vars(DistSettled)

-----------------------------------------------------------------------------
(* Claims about utils/moonbuy.ts *)

GrantsInWindow == SelectSeq(grants, LAMBDA g : g >= rateLimitState.lastReset)

\* C1: at most MAX_BUNDLES_PER_SECOND calls of checkRateLimit return within
\* one window of the limiter, the one that began at lastReset, whatever the
\* number of interleaved invocations of executeMoonBuy.
C1_RateCapHolds == Len(GrantsInWindow) <= MAX_BUNDLES_PER_SECOND

SendRequests(m) == SelectSeq(m.reqs, LAMBDA r : r.url = SendUrl)

\* C2: within one executeMoonBuy call the bundles are sent one at a time in
\* the order of signedBundles; the request for bundle i+1 starts only after
\* the answer for bundle i has arrived and 500 ms more have passed; and the
\* call returns on the answer for the last bundle, without a delay.
C2_BundlesSequential ==
    [][\A p \in Callers :
         LET m == moon[p]
             m2 == moon'[p]
         IN  /\ (Len(m2.reqs) > Len(m.reqs) /\ m2.i > 1) =>
                   /\ m.pc \in {"delay", "rateWait"}
                   /\ Len(m.results) = m2.i - 1
                   /\ now >= m.respAt + BundleDelayMs
             /\ (m.pc = "sending" /\ Len(m2.results) = Len(m.signed)) => m2.pc = "done"
             /\ \A k \in 1..Len(SendRequests(m2)) :
                   SendRequests(m2)[k].body.transactions = m2.signed[k].transactions
      ]_vars

C2_Witness ==
    \E p \in Callers :
        /\ Len(SendRequests(moon[p])) = 2
        /\ moon[p].ret.done
        /\ moon[p].ret.success

\* The /api/transactions/send requests of the Custom Buy operation in progress
CbSendRequests == SelectSeq(cbReqs, LAMBDA r : r.url = SendUrl)

AllRequests ==
    {r \in UNION {SeqToSet(moon[p].reqs) : p \in Callers} \cup SeqToSet(cbReqs) : TRUE}

CarriesPrivateKey(r) ==
    IF r.url = BuyUrl
    THEN \/ \E i \in 1..Len(r.body.walletAddresses) : r.body.walletAddresses[i] \in PrivateKeys
         \/ r.body.tokenAddress \in PrivateKeys
         \/ r.body.protocol \in PrivateKeys
    ELSE \E i \in 1..Len(r.body.transactions) :
            \/ \E j \in 1..Len(r.body.transactions[i].keys) :
                  r.body.transactions[i].keys[j] \in PrivateKeys
            \/ r.body.transactions[i].sigs \cap PrivateKeys # {}

\* C4: no request body sent to /api/tokens/buy or /api/transactions/send by a
\* Moon Buy or Custom Buy operation contains a wallet private key, whatever
\* wallets are selected, a selected key that matches no stored wallet included.
C4_PrivateKeysStayLocal == \A r \in AllRequests : ~CarriesPrivateKey(r)

\* A Custom Buy request is out for a selected key that matches no stored wallet.
C4_Witness ==
    /\ cbOp.pc = "fetching"
    /\ \E i \in 1..Len(cbOp.selected) :
          /\ \A k \in 1..Len(store) : store[k].privateKey # cbOp.selected[i]
          /\ cbReqs[1].body.walletAddresses[i] = ""

\* C5: an operation of a wizard starts, and so a backend request is issued,
\* only from the last step with the confirmation ticked: handleCustomBuy at
\* step 2, handleDistribute at the review step; with isConfirmed false no
\* operation starts, no request is sent and isSubmitting does not change.
C5_ConfirmedBeforeAnyRequest ==
    [][/\ (cbOp.pc = "idle" /\ cbOp'.pc # "idle") =>
              cb.isOpen /\ cb.currentStep = LastStep /\ cb.isConfirmed
       /\ (cbOp.pc = "idle" /\ ~cb.isConfirmed) =>
              cbOp' = cbOp /\ cbReqs' = cbReqs /\ cb'.isSubmitting = cb.isSubmitting
       /\ cbReqs' # <<>> => cbOp'.pc # "idle"
       /\ (distOp.pc = "idle" /\ distOp'.pc # "idle") =>
              dist.isOpen /\ dist.currentStep = 1 /\ dist.isConfirmed
       /\ (distOp.pc = "idle" /\ ~dist.isConfirmed) =>
              distOp' = distOp /\ dist'.isSubmitting = dist.isSubmitting
      ]_vars

C5_Witness ==
    distOp.pc = "distributing" /\ dist.isSubmitting /\ Len(distOp.recipients) > 0

MoonHasMalformedKey(p) ==
    \E k \in 1..Len(moon[p].wallets) : Malformed(moon[p].wallets[k].privateKey)

CbHasMalformedKey ==
    \E i \in 1..Len(cbOp.selected) : Malformed(cbOp.selected[i])

\* C6 as stated: an operation with a malformed private key among its wallets
\* has sent no request at all.
C6_CaughtBeforeAnyRequest ==
    /\ \A p \in Callers : MoonHasMalformedKey(p) => moon[p].reqs = <<>>
    /\ CbHasMalformedKey => cbReqs = <<>>

\* C6, amended: the malformed key is caught after the /api/tokens/buy request
\* and before any transaction is submitted.  Moon Buy builds the keypairs
\* after every answer: it sends nothing to /api/transactions/send and returns
\* success:false with the error.  Custom Buy builds them when it signs a
\* bundle that has a transactions array: on an answer with such a bundle it
\* fails with the error, and no request it sends carries a transaction.
C6_CaughtBeforeSubmission ==
    /\ \A p \in Callers :
          MoonHasMalformedKey(p) =>
             /\ SendRequests(moon[p]) = <<>>
             /\ moon[p].pc \in {"fetching", "done"}
             /\ moon[p].pc = "fetching" =>
                   \A resp \in BuyResponses : MoonSigned(resp, moon[p].wallets).threw
             /\ moon[p].ret.done => ~moon[p].ret.success /\ moon[p].ret.error # ""
    /\ CbHasMalformedKey =>
          /\ \A k \in 1..Len(CbSendRequests) : CbSendRequests[k].body.transactions = <<>>
          /\ cbOp.pc = "fetching" =>
                \A resp \in BuyResponses :
                   (\E i \in 1..Len(PreparedBundles(resp).bundles) :
                       PreparedBundles(resp).bundles[i].hasTx)
                   => LET out == CbSigned(resp, cbOp.selected)
                      IN  out.threw /\ out.error = "bad secret key"

C6_Witness ==
    \E p \in Callers :
       /\ MoonHasMalformedKey(p)
       /\ moon[p].ret.done /\ moon[p].ret.error = "bad secret key"
       /\ Len(moon[p].reqs) = 1 /\ moon[p].reqs[1].url = BuyUrl

\* C7 as stated: handleCustomBuy starts an operation, and sends the
\* /api/tokens/buy request, only if no selected wallet's amount exceeds that
\* wallet's SOL balance.
C7_BalanceCheckedBeforeRequest ==
    [][(cbOp.pc = "idle" /\ cbOp'.pc = "fetching") =>
          \A i \in 1..Len(cb.selectedWallets) :
             LessEq(parseFloat(AmountOf(cb.walletAmounts, cb.selectedWallets[i])),
                    Num(BalanceOf(getWalletAddressFromKey(cb.selectedWallets[i]))))
      ]_vars

\* What the claim of validateMoonBuyInputs requires of one wallet
WalletPasses(w, solAmount, walletBalances) ==
    /\ w.address # "" /\ w.privateKey # ""
    /\ LET balance == IF w.address \in DOMAIN walletBalances
                      THEN walletBalances[w.address] ELSE Num(0)
       IN  LessEq(solAmount, balance)

\* The result the claim requires for the arguments a
RequiredResult(a) ==
    LET failing == {k \in 1..Len(a.wallets) :
                       ~WalletPasses(a.wallets[k], a.tokenConfig.solAmount, a.walletBalances)}
        first == CHOOSE k \in failing : \A j \in failing : k <= j
    IN  CASE a.tokenConfig.tokenAddress = "" -> Invalid(<<"Invalid token address">>)
          [] ~Greater(a.tokenConfig.solAmount, Num(0)) -> Invalid(<<"Invalid SOL amount">>)
          [] Len(a.wallets) = 0 -> Invalid(<<"No wallets provided">>)
          [] failing = {} -> ValidResult
          [] a.wallets[first].address = "" \/ a.wallets[first].privateKey = "" ->
                Invalid(<<"Invalid wallet data">>)
          [] OTHER -> Invalid(<<"insufficient balance", a.wallets[first].address>>)

\* C8: validateMoonBuyInputs returns valid:true exactly when the token address
\* is non-empty, solAmount is a number above 0, there is a wallet, and every
\* wallet has an address, a key and a balance (0 when absent) of at least
\* solAmount; otherwise valid:false with the error of the first failing check
\* in that order and, among the wallets, of the first failing wallet.
C8_ValidateMoonBuyInputs == vOut.called => vOut = RequiredResult(vIn)

\* Two wallets that hold exactly solAmount are accepted.
C8_Witness ==
    /\ vOut.called /\ vOut.valid
    /\ Len(vIn.wallets) = 2
    /\ \A k \in 1..2 :
          BalanceOrZero(vIn.walletBalances, vIn.wallets[k].address) = vIn.tokenConfig.solAmount.v

\* C9 as stated: at the Review step every selected wallet has an amount that
\* parses to a number above 0, and every amount sent to /api/tokens/buy is a
\* number above 0.
C9_ReviewOnlyWithPositiveAmounts ==
    /\ (cb.isOpen /\ cb.currentStep = LastStep) =>
          \A i \in 1..Len(cb.selectedWallets) :
             Greater(parseFloat(AmountOf(cb.walletAmounts, cb.selectedWallets[i])), Num(0))
    /\ \A k \in 1..Len(cbReqs) :
          cbReqs[k].url = BuyUrl =>
             \A i \in 1..Len(cbReqs[k].body.amounts) : Greater(cbReqs[k].body.amounts[i], Num(0))

MissingOrZero(amount) == Falsy(amount) \/ parseFloat(amount) = Num(0)

\* C10 as stated: the Distribute wizard goes from step 0 to the review step
\* only with a sender, at least one recipient, a total within the sender's
\* balance and no selected recipient with a missing or zero amount, in
\* common-amount mode as in custom-amount mode.
C10_ReviewOnlyWithValidDistribution ==
    [][(dist.currentStep = 0 /\ dist'.currentStep = 1) =>
          /\ dist.selectedSenderWallet # ""
          /\ Len(dist.selectedRecipientWallets) > 0
          /\ LessEq(calculateTotalAmount(dist), Num(senderBalance(dist)))
          /\ \A i \in 1..Len(dist.selectedRecipientWallets) :
                ~MissingOrZero(getWalletAmount(dist, dist.selectedRecipientWallets[i]))
      ]_vars

\* C11 as stated: executeMoonBuy returns success:true only if every
\* /api/transactions/send answer it received carried a result; an answer with
\* an error instead (whatever its HTTP status) makes it return success:false
\* with an error message.
C11_FailedSubmissionSurfaces ==
    \A p \in Callers :
       (moon[p].ret.done /\ moon[p].ret.success) =>
          \A k \in 1..Len(moon[p].results) : moon[p].results[k] # "undefined"

\* C12 as stated: when wallet creation (createNewWallet or the balance fetch
\* after it) or a balance refresh fails, the step that handles the failure
\* shows the user a toast or an error message.
C12_FailureIsNotified ==
    appOut.console \in {"Error creating wallet:", "Error refreshing balances:"} =>
        appOut.toast # "" \/ app.importError # ""

BuyRequests(reqs) == SelectSeq(reqs, LAMBDA r : r.url = BuyUrl)

\* C13: no request is retried.  One Moon Buy or Custom Buy operation issues
\* the /api/tokens/buy request once, as its first request, and posts at most
\* one /api/transactions/send request per signed bundle, the k-th for the k-th
\* bundle; once the operation has returned or failed it sends nothing more,
\* whatever the requests answered.
C13_NoRetry ==
    /\ [](\A p \in Callers :
            LET m == moon[p]
            IN  /\ Len(BuyRequests(m.reqs)) <= 1
                /\ m.reqs # <<>> => m.reqs[1].url = BuyUrl
                /\ Len(SendRequests(m)) <= Len(m.signed)
                /\ Len(SendRequests(m)) = Len(m.results) + (IF m.pc = "sending" THEN 1 ELSE 0)
                                          + (IF m.ret.error = "Failed to fetch" /\ m.signed # <<>>
                                             THEN 1 ELSE 0))
    /\ [](/\ Len(BuyRequests(cbReqs)) <= 1
          /\ cbReqs # <<>> => cbReqs[1].url = BuyUrl
          /\ cbOp.pc = "fetching" =>
                \A resp \in BuyResponses :
                   LET out == CbSigned(resp, cbOp.selected)
                   IN  Len(SendRequestsFor(out.signed, cbOp.useRpc)) <= Len(out.signed))
    /\ [][/\ \A p \in Callers : moon[p].pc = "done" => moon'[p].reqs = moon[p].reqs
          /\ cbOp.pc = "sending" => cbReqs' = cbReqs \/ cbReqs' = <<>>
         ]_vars

\* The first of two bundles failed and the second was never sent.
C13_Witness ==
    \E p \in Callers :
       /\ moon[p].ret.done /\ ~moon[p].ret.success
       /\ Len(moon[p].signed) = 2 /\ Len(SendRequests(moon[p])) = 1

\* step validation of handleNext, as a predicate on the state of the wizard
StepIsValid(c) ==
    /\ c.currentStep = 0 => Len(c.selectedWallets) > 0
    /\ c.currentStep = 1 => ~hasInvalidAmount(c.walletAmounts)

\* C14: the Custom Buy wizard is a linear step machine. currentStep is always
\* 0, 1 or 2; a step that raises it raises it by exactly one, with the
\* validation of the step it leaves passed and the selection unchanged; a step
\* that lowers it lowers it by one (handleBack), or is resetForm, which returns
\* to step 0 with the selection cleared; so whenever currentStep is 1 or 2 the
\* set of selected wallets is non-empty.
C14_LinearStepMachine ==
    /\ [](component = "CustomBuyModal" =>
            /\ cb.currentStep \in 0..LastStep
            /\ cb.currentStep \in {1, 2} => Len(cb.selectedWallets) > 0)
    /\ [][component = "CustomBuyModal" =>
            /\ cb'.currentStep > cb.currentStep =>
                 /\ cb'.currentStep = cb.currentStep + 1
                 /\ StepIsValid(cb)
                 /\ cb'.selectedWallets = cb.selectedWallets
            /\ cb'.currentStep < cb.currentStep =>
                 \/ cb' = [cb EXCEPT !.currentStep = @ - 1]
                 \/ cb'.currentStep = 0 /\ cb'.selectedWallets = <<>>
            /\ (cb'.currentStep = cb.currentStep /\ cb.currentStep > 0) =>
                 cb'.selectedWallets = cb.selectedWallets]_vars

\* handleNext has passed both validations: the review step is reached
C14_Witness ==
    /\ component = "CustomBuyModal"
    /\ cb.isOpen /\ cb.currentStep = 2 /\ Len(cb.selectedWallets) > 0
    /\ ~hasInvalidAmount(cb.walletAmounts)

\* C15 as stated: going back in a wizard resets the confirmed flag and changes
\* nothing else but the step. Every step that lowers currentStep of the Custom
\* Buy wizard from its final step, or of the Distribute wizard from its review
\* step, leaves isConfirmed false; a step that lowers it with the modal still
\* open and the selection kept (Back) changes only currentStep and isConfirmed.
C15_BackResetsConfirmed ==
    [][/\ (component = "CustomBuyModal" /\ cb.currentStep = LastStep
             /\ cb'.currentStep < cb.currentStep) =>
              /\ ~cb'.isConfirmed
              /\ cb'.currentStep = cb.currentStep - 1 =>
                   cb' = [cb EXCEPT !.currentStep = @ - 1, !.isConfirmed = FALSE]
       /\ (component = "DistributeModal" /\ dist.currentStep = 1
             /\ dist'.currentStep < dist.currentStep) =>
              ~dist'.isConfirmed]_vars

\* C16 as stated: wallet uniqueness by address. After any sequence and
\* interleaving of single-key imports, file imports, creations and deletions,
\* no two wallets of the wallet list have the same address.
C16_AddressesUnique ==
    component = "WalletManager" =>
        \A i, j \in 1..Len(store) : store[i].address = store[j].address => i = j

\* the public keys of the held keypairs
HeldKeys(keypairs) == {PublicKeyOf(keypairs[i]) : i \in 1..Len(keypairs)} \ {""}

\* the keypairs handed to transaction.sign, for every transaction of every
\* bundle of an answer, are the held keys among its required signers
SignsAsRequired(resp, keypairs) ==
    LET got == PreparedBundles(resp)
    IN  (~got.threw /\ \A i \in 1..Len(keypairs) : ~Malformed(keypairs[i])) =>
           \A k \in 1..Len(got.bundles) :
              \A i \in 1..Len(got.bundles[k].transactions) :
                 LET tx == got.bundles[k].transactions[i]
                 IN  SignersOf(tx, keypairs) = HeldKeys(keypairs) \cap RequiredSigners(tx)

\* C17 as stated: for each transaction of a bundle the keypairs passed to sign
\* are exactly the held keypairs whose public key is a required signer of the
\* transaction; a held key that the transaction lists only as a non-signer
\* account is not used to sign, and a key not held is never used. Stated for
\* every answer that a call waiting for /api/tokens/buy may receive.
C17_OnlyRequiredSignersSign ==
    /\ \A p \in Callers :
          moon[p].pc = "fetching" =>
             \A resp \in BuyResponses :
                SignsAsRequired(resp, [k \in 1..Len(moon[p].wallets) |->
                                          moon[p].wallets[k].privateKey])
    /\ cbOp.pc = "fetching" =>
          \A resp \in BuyResponses : SignsAsRequired(resp, cbOp.selected)

\* s is the transaction u with signatures added: the same message, and u unsigned
IsSignedFormOf(s, u) ==
    /\ s.keys = u.keys
    /\ s.numRequiredSignatures = u.numRequiredSignatures
    /\ u.sigs = {}
    /\ s.sigs \subseteq SeqToSet(u.keys)

\* txs, a sequence of sequences of transactions, is position by position the
\* signed form of the bundles of an answer
SignedInPlace(txs, bundles) ==
    /\ Len(txs) = Len(bundles)
    /\ \A k \in 1..Len(bundles) :
          /\ Len(txs[k]) = Len(bundles[k].transactions)
          /\ \A i \in 1..Len(txs[k]) : IsSignedFormOf(txs[k][i], bundles[k].transactions[i])

\* C18: a transaction bundle stays an ordered sequence from fetch to
\* submission. The signed bundles are as many as the backend returned, each
\* with as many transactions, in the same order, each the signed form of the
\* unsigned transaction at its position; the requests to /api/transactions/send
\* carry the signed bundles in that order, one request per bundle, all of them
\* when executeMoonBuy returns success and all of them at once in Custom Buy.
C18_BundleStaysOrdered ==
    /\ [](\A p \in Callers :
            LET m == moon[p]
            IN  /\ Len(SendRequests(m)) <= Len(m.signed)
                /\ \A k \in 1..Len(SendRequests(m)) :
                      SendRequests(m)[k].body.transactions = m.signed[k].transactions
                /\ (m.ret.done /\ m.ret.success) => Len(SendRequests(m)) = Len(m.signed))
    /\ [][/\ \A p \in Callers :
               (/\ moon[p].pc = "fetching" /\ moon'[p].pc # "fetching"
                /\ ~(moon'[p].ret.done /\ ~moon'[p].ret.success)) =>
                   \E resp \in BuyResponses :
                      /\ ~PreparedBundles(resp).threw
                      /\ SignedInPlace([k \in 1..Len(moon'[p].signed) |->
                                           moon'[p].signed[k].transactions],
                                       PreparedBundles(resp).bundles)
          /\ (cbOp.pc = "fetching" /\ cbOp'.pc = "sending") =>
                \E resp \in BuyResponses :
                   LET sends == SelectSeq(cbReqs', LAMBDA r : r.url = SendUrl)
                   IN  /\ ~PreparedBundles(resp).threw
                       /\ SignedInPlace([k \in 1..Len(sends) |-> sends[k].body.transactions],
                                        PreparedBundles(resp).bundles)]_vars

C18_Witness ==
    \/ \E p \in Callers :
          /\ moon[p].ret.done /\ moon[p].ret.success
          /\ Len(SendRequests(moon[p])) = 2
          /\ Len(SendRequests(moon[p])[2].body.transactions) = 2
          /\ SendRequests(moon[p])[2].body.transactions[2].sigs = {"A1", "A2"}
    \/ /\ cbOp.pc = "sending" /\ Len(CbSendRequests) = 2
       /\ CbSendRequests[2].body.transactions[1].sigs = {"A1"}

\* C19 as stated: the wallet list is persisted whenever it changes. After
\* every creation, import and deletion, the empty list included, the saved
\* list equals the list in memory.
C19_SavedListIsCurrent ==
    component = "WalletManager" => cookie = store

\* C20: the wizards stay usable after a failure. When every request eventually
\* resolves or rejects, isSubmitting of Custom Buy and of Distribute, once
\* true, eventually returns to false, whatever the outcome of the submission;
\* isSubmitting is true exactly while a submission is in flight, and a step
\* taken while it is true does not start a submission.
C20_SubmittingEventuallyEnds ==
    /\ cb.isSubmitting ~> ~cb.isSubmitting
    /\ dist.isSubmitting ~> ~dist.isSubmitting
    /\ [](cb.isSubmitting <=> cbOp.pc # "idle")
    /\ [](dist.isSubmitting <=> distOp.pc # "idle")
    /\ [][/\ cb.isSubmitting =>
               /\ cbOp'.pc = "fetching" => cbOp' = cbOp
               /\ Len(BuyRequests(cbReqs')) <= Len(BuyRequests(cbReqs))
          /\ dist.isSubmitting =>
               (distOp'.pc = "distributing" => distOp' = distOp)]_vars

\* a submission has failed and the wizard accepts input again
C20_Witness ==
    \/ /\ component = "CustomBuyModal" /\ cb.isOpen /\ ~cb.isSubmitting
       /\ cbToast.type = "error" /\ cbToast.msg \in {"http", "neterr"}
    \/ /\ component = "DistributeModal" /\ dist.isOpen /\ ~dist.isSubmitting
       /\ distToast = [type |-> "error", msg |-> "Distribution failed"]

-----------------------------------------------------------------------------
(* Claims C21 to C30 *)

\* C21: when the cap is reached checkRateLimit sleeps for the remainder of the
\* current window before resetting. A caller that starts to wait finds
\* count >= 2 and leaves it as it is, and its timer is set to
\* 1000 - (now - lastReset) milliseconds from now, which is more than 0 and at
\* most 1000; a caller that stops waiting does so at or after its deadline and
\* leaves count = 1 and lastReset = the current time.
C21_WaitsForRestOfWindow ==
    [][\A p \in Callers :
         /\ (moon[p].pc # "rateWait" /\ moon'[p].pc = "rateWait") =>
               LET waitTime == moon'[p].timer - now
               IN  /\ rateLimitState'.count >= MAX_BUNDLES_PER_SECOND
                   /\ waitTime = WindowMs - (now - rateLimitState'.lastReset)
                   /\ waitTime > 0 /\ waitTime <= WindowMs
         /\ (moon[p].pc = "rateWait" /\ moon'[p].pc # "rateWait") =>
               /\ now >= moon[p].timer
               /\ rateLimitState' = [count |-> 1, lastReset |-> now]]_vars

\* a caller that found the cap reached before its first bundle has waited
\* until its deadline and has been let through
C21_Witness ==
    \E p \in Callers :
        /\ moon[p].pc = "sending" /\ moon[p].i = 1
        /\ moon[p].timer > 0 /\ moon[p].timer <= now
        /\ rateLimitState = [count |-> 1, lastReset |-> now]

\* the bundles got from an answer with a JSON body are those its format gives
FormatAccepted(resp, got) ==
    /\ resp.kind = "bundles" =>
          /\ ~got.threw
          /\ Len(got.bundles) = Len(resp.bundles)
          /\ \A k \in 1..Len(resp.bundles) :
                got.bundles[k].transactions =
                   IF IsPlainArray(resp.bundles[k]) THEN resp.bundles[k].plain
                   ELSE resp.bundles[k].transactions
    /\ resp.kind \in {"transactions", "array"} =>
          /\ ~got.threw
          /\ Len(got.bundles) = 1
          /\ got.bundles[1].transactions = resp.transactions
    /\ resp.kind = "none" =>
          got.threw /\ got.error = "No transactions returned from backend"

\* C22 as stated: the response of /api/tokens/buy is normalized to a list of
\* bundles in every supported format. A bundles array gives one bundle per
\* element, a flat transactions array gives a single bundle, a body that is
\* itself an array is accepted and gives a single bundle with those
\* transactions, and a body with none of these raises 'No transactions
\* returned from backend'. Stated for every answer that a call waiting for
\* /api/tokens/buy may receive.
C22_EveryFormatNormalized ==
    /\ \A p \in Callers :
          moon[p].pc = "fetching" =>
             \A resp \in BuyResponses : FormatAccepted(resp, PreparedBundles(resp))
    /\ cbOp.pc = "fetching" =>
          \A resp \in BuyResponses : FormatAccepted(resp, getUnsignedTransactions(resp))

\* C23: in the Distribute wizard the sender is never also a recipient. In
\* every state reached by selecting a sender, toggling recipients and using
\* select/deselect all, in any order, selectedSenderWallet is not an element
\* of selectedRecipientWallets.
C23_SenderIsNoRecipient ==
    component = "DistributeModal" =>
        ~Includes(dist.selectedRecipientWallets, dist.selectedSenderWallet)

\* a sender is selected and every other wallet is a recipient
C23_Witness ==
    /\ component = "DistributeModal" /\ dist.isOpen
    /\ dist.selectedSenderWallet # ""
    /\ Len(dist.selectedRecipientWallets) > 0
    /\ Len(dist.selectedRecipientWallets) = Len(getAvailableRecipientWallets(dist))

\* C24: in the Distribute wizard walletAmounts holds exactly one entry per
\* selected recipient, in selection order, and in common-amount mode every
\* entry equals the common amount. In custom-amount mode a step that changes
\* the recipient selection or the common amount keeps, for every wallet that
\* remains selected, the amount entered for it (an empty field is no amount:
\* it takes the common amount), and gives the newly selected wallets the
\* common amount.
C24_OneAmountPerRecipient ==
    /\ [](component = "DistributeModal" =>
            /\ Len(dist.walletAmounts) = Len(dist.selectedRecipientWallets)
            /\ \A i \in 1..Len(dist.walletAmounts) :
                  /\ dist.walletAmounts[i].address = dist.selectedRecipientWallets[i]
                  /\ ~dist.useCustomAmounts => dist.walletAmounts[i].amount = dist.commonAmount)
    /\ [][(/\ component = "DistributeModal"
           /\ dist.isOpen /\ dist'.isOpen
           /\ dist.useCustomAmounts /\ dist'.useCustomAmounts
           /\ \/ dist'.selectedRecipientWallets # dist.selectedRecipientWallets
              \/ dist'.commonAmount # dist.commonAmount) =>
             \A i \in 1..Len(dist'.selectedRecipientWallets) :
                LET a == dist'.selectedRecipientWallets[i]
                IN  dist'.walletAmounts[i].amount =
                       IF Includes(dist.selectedRecipientWallets, a)
                          /\ getWalletAmount(dist, a) # <<>>
                       THEN getWalletAmount(dist, a)
                       ELSE dist'.commonAmount]_vars

\* custom-amount mode with a recipient whose own amount differs from the
\* common amount, next to one that has the common amount
C24_Witness ==
    /\ component = "DistributeModal" /\ dist.isOpen /\ dist.useCustomAmounts
    /\ dist.commonAmount # <<>>
    /\ Len(dist.walletAmounts) = 2
    /\ dist.walletAmounts[1].amount \notin {<<>>, dist.commonAmount}
    /\ dist.walletAmounts[2].amount = dist.commonAmount

\* the private keys of the listed (filtered) wallets
FilteredKeys == {filteredWallets[i].privateKey : i \in 1..Len(filteredWallets)}

\* C25 as stated: the Custom Buy select-all toggle deselects everything if all
\* listed wallets are selected and otherwise selects all of them. After
\* handleSelectAllWallets either the selection is empty and beforehand every
\* filtered wallet was selected, or the selection is exactly the set of
\* filtered wallets, whatever the prior selection and the filter.
C25_SelectAllToggles ==
    [][handleSelectAllWallets =>
         \/ /\ cb'.selectedWallets = <<>>
            /\ FilteredKeys \subseteq SeqToSet(cb.selectedWallets)
         \/ /\ SeqToSet(cb'.selectedWallets) = FilteredKeys
            /\ Len(cb'.selectedWallets) = Len(filteredWallets)]_vars

\* C26 as stated: executeMoonBuy never rejects. A call that has returned has
\* resolved either to success:true with exactly one result per bundle, in
\* bundle order, or to success:false with an error message; and once a step
\* has failed (the fetch, the signing, or a submission that was answered
\* without a result) the call sends no further bundle.
C26_ResolvesAndStopsOnFailure ==
    /\ [](\A p \in Callers :
            LET m == moon[p]
            IN  /\ (m.ret.done /\ m.ret.success) =>
                     /\ Len(m.results) = Len(m.signed)
                     /\ \A k \in 1..Len(m.results) : m.results[k] = "bundleId"
                /\ (m.ret.done /\ ~m.ret.success) => m.ret.error # "")
    /\ [][\A p \in Callers :
            (\/ moon[p].ret.done /\ ~moon[p].ret.success
             \/ \E k \in 1..Len(moon[p].results) : moon[p].results[k] = "undefined") =>
                moon'[p].reqs = moon[p].reqs]_vars

C28_FileImportKeepsBalances ==
    [][FileImported =>
         \A a \in DOMAIN solBalances :
            a \in DOMAIN solBalances' /\ solBalances'[a] = solBalances[a]]_vars

\* C29 as stated: isRefreshing is true whenever at least one handleRefresh
\* call is still in flight; with overlapping refreshes the flag does not
\* return to false until the last of them has finished.
C29_RefreshingWhileInFlight ==
    component = "WalletManager" =>
        ((\E op \in BagToSet(appOps) : op.kind = "handleRefresh") => app.isRefreshing)

\* C30: in every reachable state, for any interleaving of checkRateLimit
\* callers, 0 <= rateLimitState.count <= maxBundlesPerSecond (2), and
\* lastReset never exceeds the current time.
C30_CountWithinCap ==
    component = "moonbuy" =>
        /\ rateLimitState.count \in 0..MAX_BUNDLES_PER_SECOND
        /\ rateLimitState.lastReset <= now

\* The counter is at the cap after a reset, one caller is asleep in
\* checkRateLimit and another one is sending.
C30_Witness ==
    /\ component = "moonbuy"
    /\ rateLimitState.count = MAX_BUNDLES_PER_SECOND
    /\ rateLimitState.lastReset > 0
    /\ \E p \in Callers, q \in Callers :
         p # q /\ moon[p].pc = "rateWait" /\ moon[q].pc = "sending"

====
